---- MODULE Spec2Model ----
(***************************************************************************)
(* Verification model of the botcasino13 trading bot.                      *)
(*                                                                         *)
(* Part I   : TradeDecisionEngine.makeDecision (src/src/tradeDecision.js)  *)
(*            as a state machine whose steps are the stretches of code     *)
(*            between two awaits.                                          *)
(* Part II  : the candle detectors (swings, gaps, liquidity, bias, cycle,  *)
(*            divergence) as operators over candle series.                 *)
(* Part III : Backtester.simulateDay (src/src/backtest/runner.js and       *)
(*            src/unnamed/part_005), the replay of one archived day.       *)
(* Prices are integers (cents); confluence scores are integers in tenths.  *)
(***************************************************************************)
EXTENDS Integers, Naturals, Sequences, FiniteSets, TLC

VARIABLES
    clock,          \* what `new Date()` returns: [day, minute] (UTC)
    tradesToday,    \* TradeDecisionEngine.tradesToday
    lastTradeDate,  \* TradeDecisionEngine.lastTradeDate (0 = null)
    call,           \* the makeDecision invocation in progress / last returned
    world,          \* collaborator results at the current cursor, as far as read
    prev,           \* the previous returned invocation when the current one re-evaluates the same cursor
    calls,          \* makeDecision invocations of one engine that overlap in time
    candles,        \* a candle series handed to a detector; its last candle is the cursor
    lookback,       \* the lookback the swing detectors are called with
    dayCandles,     \* simulateDay: the archived 5m candles of the day
    htfCandles,     \* simulateDay: the archived 4h and 1d candles
    smtDayCandles,  \* simulateDay: the 5m candles of the reference asset
    decisionHour,   \* simulateDay: the UTC hour of the decision
    backtester,     \* which Backtester.simulateDay runs: "runner" or "part_005"
    outcome,        \* what the last simulateDay call returned
    revisions,      \* how many times the archive was revised since that call
    config,         \* simulateDay: the settings of CONFIG that simulateDay reads
    results,        \* runBacktest: the results object and the streak counters of the loop
    state,          \* BotCasino13.state
    source,         \* an external data source (NewsSentiment, ETFFlows, EconomicCalendar)
    lastCheck       \* BotCasino13.checkAndTrade: what the last check did

engineVars == <<clock, tradesToday, lastTradeDate, call, world, prev, calls>>

detectorVars == <<candles, lookback>>

replayVars ==
    <<dayCandles, htfCandles, smtDayCandles, decisionHour, backtester, outcome, revisions,
      config>>

componentVars == <<results, state, source, lastCheck>>

vars ==
    <<clock, tradesToday, lastTradeDate, call, world, prev, calls, candles, lookback,
      dayCandles, htfCandles, smtDayCandles, decisionHour, backtester, outcome, revisions,
      config, results, state, source, lastCheck>>

-----------------------------------------------------------------------------
(* Bounds of the exploration *)

MaxDay == 5
MaxVotes == 1
MaxTrades == 3
MaxSwingLen == 9
MaxFVGLen == 15
MaxSweepLen == 14
MaxDayLen == 27
MaxMissing == 1
MaxRevisions == 1
MaxReplayDays == 8
MaxRecords == 14
MaxCalls == 3
MaxLosses == 1

-----------------------------------------------------------------------------
(* CONFIG (src/config/settings.js, first configuration object)              *)

MAX_TRADES_PER_DAY == 1
ALLOW_SECOND_TRADE_IF_A_PLUS == TRUE
MIN_SCORE_TO_TRADE == 70
A_PLUS_SCORE == 90
MIN_ALIGNED_COUNT == 1
SILVER_BULLET_BONUS == 5

FACTORS ==
    [ HTF_BIAS_ALIGNED |-> 20, KILLZONE_ACTIVE |-> 10, LIQUIDITY_SWEPT |-> 20,
      FVG_PRESENT |-> 10, ORDER_BLOCK_PRESENT |-> 10, SMT_DIVERGENCE |-> 15,
      PREMIUM_DISCOUNT_ZONE |-> 10, NEWS_CLEAR |-> 5 ]

KILLZONES ==
    [ ASIA        |-> [START |-> 0,    END |-> 240,  IS_ENABLED |-> FALSE],
      LONDON      |-> [START |-> 420,  END |-> 600,  IS_ENABLED |-> TRUE],
      NEW_YORK_AM |-> [START |-> 780,  END |-> 960,  IS_ENABLED |-> TRUE],
      NEW_YORK_PM |-> [START |-> 1080, END |-> 1200, IS_ENABLED |-> FALSE] ]

SILVER_BULLET ==
    [ LONDON |-> [START |-> 540,  END |-> 600],
      NY_AM  |-> [START |-> 840,  END |-> 900],
      NY_PM  |-> [START |-> 1140, END |-> 1200] ]

ENTRY_MODELS ==
    [ FVG_DISPLACEMENT |-> [IS_ENABLED |-> TRUE, WIN_RATE_ESTIMATE |-> 68],
      MMXM             |-> [IS_ENABLED |-> TRUE, WIN_RATE_ESTIMATE |-> 72],
      JUDAS_SWING      |-> [IS_ENABLED |-> TRUE, WIN_RATE_ESTIMATE |-> 65] ]

\* CONFIG.DATA_SOURCES is not defined by settings.js: every
\* CONFIG.DATA_SOURCES?.X?.ENABLED is undefined (falsy).
DATA_SOURCES_ENABLED == FALSE
BLOCK_ON_STRONG_DISAGREEMENT == FALSE

-----------------------------------------------------------------------------
(* The clock.  Day 1 is Wednesday 2025-12-24; minutes are UTC minutes      *)
(* since midnight.                                                         *)

Minutes == {300, 425, 570}

Clocks == [day : 1..MaxDay, minute : Minutes]

\* Date.getUTCDay(): 0 = Sunday, 6 = Saturday
getUTCDay(d) == (d + 2) % 7

\* holidays.includes(currentTime.date): 2025-12-25 is day 2
isHoliday(d) == d = 2

\* variant: only the Sunday is skipped
shouldSkipToday_sundayOnly(t) ==
    IF getUTCDay(t.day) = 0
    THEN [skip |-> TRUE, reason |-> "Weekend"]
    ELSE IF isHoliday(t.day)
         THEN [skip |-> TRUE, reason |-> "Holiday"]
         ELSE [skip |-> FALSE, reason |-> "none"]

shouldSkipToday(t) ==
    IF getUTCDay(t.day) = 0 \/ getUTCDay(t.day) = 6
    THEN [skip |-> TRUE, reason |-> "Weekend"]
    ELSE IF isHoliday(t.day)
         THEN [skip |-> TRUE, reason |-> "Holiday"]
         ELSE [skip |-> FALSE, reason |-> "none"]

isInKillzone(name, t) ==
    LET kz == KILLZONES[name]
    IN  /\ kz.IS_ENABLED
        /\ ~(getUTCDay(t.day) = 0 \/ getUTCDay(t.day) = 6)
        /\ t.minute >= kz.START
        /\ t.minute <= kz.END

isInAnyKillzone(t) ==
    \E name \in {"ASIA", "LONDON", "NEW_YORK_AM", "NEW_YORK_PM"} : isInKillzone(name, t)

isInSilverBullet(t) ==
    /\ ~(getUTCDay(t.day) = 0 \/ getUTCDay(t.day) = 6)
    /\ \E name \in DOMAIN SILVER_BULLET :
          /\ t.minute >= SILVER_BULLET[name].START
          /\ t.minute <= SILVER_BULLET[name].END

getSessionOpenInfo(t) ==
    \E open \in {420, 780} : t.minute - open >= 0 /\ t.minute - open <= 30

getTradingWindowStatus(t) ==
    IF shouldSkipToday(t).skip
    THEN [canTrade |-> FALSE, skipped |-> TRUE, inSilverBullet |-> FALSE]
    ELSE [canTrade |-> isInAnyKillzone(t), skipped |-> FALSE,
          inSilverBullet |-> isInAnyKillzone(t) /\ isInSilverBullet(t)]

-----------------------------------------------------------------------------
(* Collaborator results.  The engine only reads them; which results exist   *)
(* at a cursor is the environment's choice.                                *)

Bias == {"BULLISH", "BEARISH", "NEUTRAL"}

\* NewsFilter.checkNewsBlackout
NewsResults == {[blackout |-> FALSE], [blackout |-> TRUE]}

\* PriceDataFetcher.getAnalysisData: rejected (a fetch failed), or the
\* volatility record of calculateATR (null below period + 1 candles)
\* together with the per-timeframe bias votes of the fetched candles.
MarketDataSet ==
    {[failed |-> TRUE, volatility |-> "null", bullish |-> 0, bearish |-> 0]}
    \cup {[failed |-> FALSE, volatility |-> v, bullish |-> 0, bearish |-> 0] :
             v \in {"null", "low", "high"}}
    \cup {[failed |-> FALSE, volatility |-> "ok", bullish |-> b, bearish |-> s] :
             b \in 0..MaxVotes, s \in 0..MaxVotes}

Signal == {"absent", "aligned", "opposed"}

\* TradeDecisionEngine.analyzeExternalData: a source that is not enabled
\* resolves to null and leaves no entry in the result.
analyzeExternalData ==
    IF DATA_SOURCES_ENABLED
    THEN [sentiment : Signal, etf : Signal \cup {"strongDisagreement"},
          economic : Signal \cup {"blackout"}]
    ELSE {[sentiment |-> "absent", etf |-> "absent", economic |-> "absent"]}

\* results of the synchronous detectors on the fetched 5m candles
MMXMResults ==
    {[tradeable |-> FALSE, direction |-> "NEUTRAL"]}
    \cup {[tradeable |-> TRUE, direction |-> d] : d \in {"BULLISH", "BEARISH"}}

JudasResults ==
    {[tradeable |-> FALSE, expectedReversal |-> "NEUTRAL"]}
    \cup {[tradeable |-> TRUE, expectedReversal |-> d] : d \in {"BULLISH", "BEARISH"}}

Zones == {"PREMIUM", "DISCOUNT_EDGE"}

CandleResults ==
    [swept : BOOLEAN, mmxm : MMXMResults, fvgValid : BOOLEAN, zone : Zones,
     judas : JudasResults, smt : BOOLEAN]

EmptyWorld == [k \in {} |-> FALSE]

\* the values a collaborator may return: what it returned before at this
\* cursor, or anything if it was not asked yet
Read(key, S) == IF key \in DOMAIN world THEN {world[key]} ELSE S

\* the recorded results, extended by the results read just now
Record(keys, r) == [k \in keys |-> r[k]] @@ world

-----------------------------------------------------------------------------
(* makeDecision: the decision object and its exits                          *)

NoStatus == [canTrade |-> FALSE, skipped |-> FALSE, inSilverBullet |-> FALSE]

NewCall(r) ==
    [ pc |-> "idle", replay |-> r, steady |-> TRUE, skipDay |-> FALSE,
      trace |-> <<>>, failed |-> "none", error |-> FALSE,
      action |-> "NO_TRADE", direction |-> "null", confidence |-> 0,
      confluenceScore |-> 0, presentFactors |-> <<>>, reasons |-> <<>>,
      kz |-> NoStatus, limitReached |-> FALSE ]

NoCall == NewCall(FALSE)

\* the invocations that may overlap: the check at the start of run() and the
\* scheduled check that starts before it returned
CallIds == {1, 2}

\* an invocation not started: its decision object, the results its awaits
\* returned, and the tradesToday it found when it started
NotStarted ==
    [ call |-> NoCall, news |-> [blackout |-> FALSE],
      data |-> [failed |-> TRUE, volatility |-> "null", bullish |-> 0, bearish |-> 0],
      tradesAtStart |-> 0 ]

NoCalls == [i \in CallIds |-> NotStarted]

\* `return decision` after a failed gate
Returned(c, gate, rs) ==
    [c EXCEPT !.pc = "done", !.failed = gate, !.reasons = @ \o rs]

\* variant: no catch block, the rejection reaches the caller
Caught_rethrown(c) ==
    [c EXCEPT !.pc = "thrown", !.error = TRUE]

\* the catch block of makeDecision
Caught(c) ==
    [c EXCEPT !.pc = "done", !.error = TRUE, !.reasons = @ \o <<"ERROR">>]

Evaluating(c, gate) == [c EXCEPT !.trace = Append(@, gate)]

getHTFBiasAlignment(bullishCount, bearishCount) ==
    [ overallBias |-> IF bullishCount > bearishCount THEN "BULLISH"
                      ELSE IF bearishCount > bullishCount THEN "BEARISH"
                      ELSE "NEUTRAL",
      aligned |-> (IF bullishCount > bearishCount THEN bullishCount ELSE bearishCount)
                      >= MIN_ALIGNED_COUNT ]

\* pdZone.zone.includes(word)
zoneIncludes(zone, word) ==
    IF word = "DISCOUNT" THEN zone \in {"DISCOUNT", "DISCOUNT_EDGE"}
    ELSE zone \in {"PREMIUM", "PREMIUM_EDGE"}

correctZone(zone, expectedDirection) ==
    \/ expectedDirection = "BULLISH" /\ zoneIncludes(zone, "DISCOUNT")
    \/ expectedDirection = "BEARISH" /\ zoneIncludes(zone, "PREMIUM")

\* variant: the MMXM model is accepted whatever direction it points to
validateEntryModels_anyDirection(r, withinSessionOpen, expectedDirection) ==
    IF ENTRY_MODELS.MMXM.IS_ENABLED /\ r.mmxm.tradeable
    THEN [validModel |-> TRUE, model |-> "MMXM",
          winRateEstimate |-> ENTRY_MODELS.MMXM.WIN_RATE_ESTIMATE,
          read |-> {"mmxm"}]
    ELSE IF ENTRY_MODELS.FVG_DISPLACEMENT.IS_ENABLED /\ r.fvgValid
               /\ correctZone(r.zone, expectedDirection)
    THEN [validModel |-> TRUE, model |-> "FVG_DISPLACEMENT",
          winRateEstimate |-> ENTRY_MODELS.FVG_DISPLACEMENT.WIN_RATE_ESTIMATE,
          read |-> {"mmxm", "fvgValid", "zone"}]
    ELSE IF ENTRY_MODELS.JUDAS_SWING.IS_ENABLED /\ withinSessionOpen
               /\ r.judas.tradeable /\ r.judas.expectedReversal = expectedDirection
    THEN [validModel |-> TRUE, model |-> "JUDAS_SWING",
          winRateEstimate |-> ENTRY_MODELS.JUDAS_SWING.WIN_RATE_ESTIMATE,
          read |-> {"mmxm", "fvgValid", "zone", "judas"}]
    ELSE [validModel |-> FALSE, model |-> "null", winRateEstimate |-> 0,
          read |-> {"mmxm", "fvgValid", "zone"}
                      \cup (IF withinSessionOpen THEN {"judas"} ELSE {})]

validateEntryModels(r, withinSessionOpen, expectedDirection) ==
    IF ENTRY_MODELS.MMXM.IS_ENABLED /\ r.mmxm.tradeable
           /\ r.mmxm.direction = expectedDirection
    THEN [validModel |-> TRUE, model |-> "MMXM",
          winRateEstimate |-> ENTRY_MODELS.MMXM.WIN_RATE_ESTIMATE,
          read |-> {"mmxm"}]
    ELSE IF ENTRY_MODELS.FVG_DISPLACEMENT.IS_ENABLED /\ r.fvgValid
               /\ correctZone(r.zone, expectedDirection)
    THEN [validModel |-> TRUE, model |-> "FVG_DISPLACEMENT",
          winRateEstimate |-> ENTRY_MODELS.FVG_DISPLACEMENT.WIN_RATE_ESTIMATE,
          read |-> {"mmxm", "fvgValid", "zone"}]
    ELSE IF ENTRY_MODELS.JUDAS_SWING.IS_ENABLED /\ withinSessionOpen
               /\ r.judas.tradeable /\ r.judas.expectedReversal = expectedDirection
    THEN [validModel |-> TRUE, model |-> "JUDAS_SWING",
          winRateEstimate |-> ENTRY_MODELS.JUDAS_SWING.WIN_RATE_ESTIMATE,
          read |-> {"mmxm", "fvgValid", "zone", "judas"}]
    ELSE [validModel |-> FALSE, model |-> "null", winRateEstimate |-> 0,
          read |-> {"mmxm", "fvgValid", "zone"}
                      \cup (IF withinSessionOpen THEN {"judas"} ELSE {})]

\* one `if (present) { score += weight; presentFactors.push(name) }`
AddFactor(acc, present, name, weight) ==
    IF present
    THEN [score |-> acc.score + weight, presentFactors |-> Append(acc.presentFactors, name)]
    ELSE acc

calculateConfluence(htfAligned, killzoneStatus, newsCheck, externalData, r, expectedDirection) ==
    LET a0 == [score |-> 0, presentFactors |-> <<>>]
        a1 == AddFactor(a0, htfAligned, "HTF_BIAS", FACTORS.HTF_BIAS_ALIGNED)
        a2 == AddFactor(a1, killzoneStatus.canTrade, "KILLZONE", FACTORS.KILLZONE_ACTIVE)
        a3 == AddFactor(a2, killzoneStatus.canTrade /\ killzoneStatus.inSilverBullet,
                        "SILVER_BULLET", SILVER_BULLET_BONUS)
        a4 == AddFactor(a3, r.swept, "LIQUIDITY_SWEPT", FACTORS.LIQUIDITY_SWEPT)
        a5 == AddFactor(a4, r.fvgValid, "FVG", FACTORS.FVG_PRESENT)
        a6 == AddFactor(a5, correctZone(r.zone, expectedDirection), "PD_ZONE",
                        FACTORS.PREMIUM_DISCOUNT_ZONE)
        a7 == AddFactor(a6, r.smt, "SMT", FACTORS.SMT_DIVERGENCE)
        a8 == AddFactor(a7, ~newsCheck.blackout, "NEWS_CLEAR", FACTORS.NEWS_CLEAR)
        a9 == AddFactor(a8, externalData.sentiment = "aligned", "SENTIMENT", 15)
        a10 == AddFactor(a9, externalData.etf = "aligned", "ETF_FLOWS", 20)
        a11 == AddFactor(a10, externalData.economic = "aligned", "ECONOMIC", 10)
    IN  [score |-> a11.score, presentFactors |-> a11.presentFactors,
         isAPlus |-> a11.score >= A_PLUS_SCORE]

\* variant: the limit is only hit above MAX_TRADES_PER_DAY
dailyLimit_offByOne(c, entryModels, confluence, today, trades, last) ==
    LET count == IF last # today THEN 0 ELSE trades
        c1 == [Evaluating(c, "limit") EXCEPT !.limitReached = count > MAX_TRADES_PER_DAY]
    IN  IF count > MAX_TRADES_PER_DAY
           /\ (confluence.score < A_PLUS_SCORE \/ ~ALLOW_SECOND_TRADE_IF_A_PLUS)
        THEN [call |-> Returned(c1, "limit", <<"DAILY_LIMIT">>),
              tradesToday |-> count, lastTradeDate |-> today]
        ELSE [call |-> [c1 EXCEPT
                          !.pc = "done",
                          !.action = IF c.direction = "BULLISH" THEN "LONG" ELSE "SHORT",
                          !.confidence = entryModels.winRateEstimate,
                          !.reasons = @ \o (IF count > MAX_TRADES_PER_DAY
                                            THEN <<"A_PLUS_SETUP">> ELSE <<>>)
                                        \o <<"TRADE_SIGNAL", "MODEL", "CONFLUENCE",
                                             "WIN_RATE", "HTF_BIAS">>],
              tradesToday |-> count + 1, lastTradeDate |-> today]

\* STEP 10 and the trade decision (tradeDecision.js 241-271): the state the
\* engine is left in and the decision returned, for a setup that passed
\* every gate before.
dailyLimit(c, entryModels, confluence, today, trades, last) ==
    LET count == IF last # today THEN 0 ELSE trades
        isAPlusSetup == confluence.score >= A_PLUS_SCORE
        c1 == [Evaluating(c, "limit") EXCEPT !.limitReached = count >= MAX_TRADES_PER_DAY]
    IN  IF count >= MAX_TRADES_PER_DAY
           /\ (~isAPlusSetup \/ ~ALLOW_SECOND_TRADE_IF_A_PLUS)
        THEN [call |-> Returned(c1, "limit", <<"DAILY_LIMIT">>),
              tradesToday |-> count, lastTradeDate |-> today]
        ELSE [call |-> [c1 EXCEPT
                          !.pc = "done",
                          !.action = IF c.direction = "BULLISH" THEN "LONG" ELSE "SHORT",
                          !.confidence = entryModels.winRateEstimate,
                          !.reasons = @ \o (IF count >= MAX_TRADES_PER_DAY
                                            THEN <<"A_PLUS_SETUP">> ELSE <<>>)
                                        \o <<"TRADE_SIGNAL", "MODEL", "CONFLUENCE",
                                             "WIN_RATE", "HTF_BIAS">>],
              tradesToday |-> count + 1, lastTradeDate |-> today]

\* variant: a score equal to the minimum is rejected too
belowMinimum_orEqual(score) == score <= MIN_SCORE_TO_TRADE

\* STEP 9: confluence.score < CONFIG.CONFLUENCE.MIN_SCORE_TO_TRADE
belowMinimum(score) == score < MIN_SCORE_TO_TRADE

CandleKeys == {"swept", "mmxm", "fvgValid", "zone", "judas", "smt"}

\* STEPS 6.5 (after the await) to 10 of makeDecision (tradeDecision.js 175-271)
stepsAfterExternal(c, externalData, r, newsCheck, htfBias, t, trades, last) ==
    LET keep == [tradesToday |-> trades, lastTradeDate |-> last]
        exit(cc, gate, rs, read) ==
            [call |-> Returned(cc, gate, rs), read |-> read] @@ keep
        c1 == Evaluating(c, "sweep")
        c2 == Evaluating(c1, "entry")
        entryModels == validateEntryModels(r, getSessionOpenInfo(t), c.direction)
        confluence == calculateConfluence(htfBias.aligned, c.kz, newsCheck,
                                          externalData, r, c.direction)
        c3 == [Evaluating(c2, "confluence") EXCEPT
                  !.confluenceScore = confluence.score,
                  !.presentFactors = confluence.presentFactors]
        allRead == {"swept", "smt"} \cup entryModels.read \cup {"fvgValid", "zone"}
    IN  IF externalData.economic = "blackout"
        THEN exit(c, "external", <<"ECONOMIC_BLACKOUT">>, {})
        ELSE IF BLOCK_ON_STRONG_DISAGREEMENT /\ externalData.etf = "strongDisagreement"
        THEN exit(c, "external", <<"ETF_DISAGREEMENT", "ETF_SIGNAL">>, {})
        ELSE IF ~r.swept
        THEN exit(c1, "sweep", <<"NO_LIQUIDITY_SWEEP", "MANDATORY">>, {"swept"})
        ELSE IF ~entryModels.validModel
        THEN exit(c2, "entry", <<"NO_VALID_ENTRY_MODEL">>, {"swept"} \cup entryModels.read)
        ELSE IF belowMinimum(confluence.score)
        THEN exit(c3, "confluence", <<"LOW_CONFLUENCE", "PRESENT", "MISSING">>, allRead)
        ELSE [read |-> allRead]
                 @@ dailyLimit(c3, entryModels, confluence, t.day, trades, last)

\* variant: the session window is looked up before the blackout is tested
stepsAfterNews_windowFirst(c, newsCheck, t) ==
    LET killzoneStatus == getTradingWindowStatus(t)
        c1 == [Evaluating(c, "session") EXCEPT !.kz = killzoneStatus]
    IN  IF newsCheck.blackout
        THEN Returned(c1, "news", <<"NEWS_BLACKOUT">>)
        ELSE IF ~killzoneStatus.canTrade
        THEN Returned(c1, "session",
                      <<"OUTSIDE_KILLZONE">>
                          \o (IF killzoneStatus.skipped THEN <<>> ELSE <<"NEXT">>))
        ELSE [Evaluating(c1, "volatility") EXCEPT !.pc = "awaitData"]

\* STEPS 2 (after the await) to 4 (tradeDecision.js 115-139)
stepsAfterNews(c, newsCheck, t) ==
    LET killzoneStatus == getTradingWindowStatus(t)
        c1 == [Evaluating(c, "session") EXCEPT !.kz = killzoneStatus]
    IN  IF newsCheck.blackout
        THEN Returned(c, "news", <<"NEWS_BLACKOUT">>)
        ELSE IF ~killzoneStatus.canTrade
        THEN Returned(c1, "session",
                      <<"OUTSIDE_KILLZONE">>
                          \o (IF killzoneStatus.skipped THEN <<>> ELSE <<"NEXT">>))
        ELSE [Evaluating(c1, "volatility") EXCEPT !.pc = "awaitData"]

\* STEPS 4 (after the await) to 6.5 (tradeDecision.js 140-174)
stepsAfterData(c, marketData) ==
    LET htfBias == getHTFBiasAlignment(marketData.bullish, marketData.bearish)
        c1 == Evaluating(c, "bias")
    IN  IF marketData.failed \/ marketData.volatility = "null"
        THEN Caught(c)
        ELSE IF marketData.volatility # "ok"
        THEN Returned(c, "volatility",
                      <<IF marketData.volatility = "low"
                        THEN "LOW_VOLATILITY" ELSE "HIGH_VOLATILITY">>)
        ELSE IF ~htfBias.aligned \/ htfBias.overallBias = "NEUTRAL"
        THEN Returned(c1, "bias", <<"NO_HTF_ALIGNMENT">>)
        ELSE [Evaluating(c1, "external") EXCEPT
                 !.direction = htfBias.overallBias, !.pc = "awaitExternal"]

\* STEPS 1 and 2 up to the await (tradeDecision.js 91-114)
stepsBeforeNews(c, t) ==
    LET c1 == [Evaluating(c, "calendar") EXCEPT !.skipDay = shouldSkipToday(t).skip]
    IN  IF shouldSkipToday(t).skip
        THEN Returned(c1, "calendar", <<"SKIP">>)
        ELSE [Evaluating(c1, "news") EXCEPT !.pc = "awaitNews"]

-----------------------------------------------------------------------------
(* Actions of the engine                                                    *)

Later(t, u) == u.day > t.day \/ (u.day = t.day /\ u.minute > t.minute)

\* makeDecision() is called at time t; with replay it is called again at
\* once and the collaborators answer as at the previous call (same series,
\* same cursor, same configuration).
MakeDecision(replay, t) ==
    /\ call.pc \in {"idle", "done"}
    /\ IF replay THEN call.pc = "done" /\ ~call.replay /\ call.steady /\ t = clock
                 ELSE t = clock \/ Later(clock, t)
    /\ tradesToday < MaxTrades
    /\ clock' = t
    /\ call' = stepsBeforeNews(NewCall(replay), t)
    /\ world' = IF replay THEN world ELSE EmptyWorld
    /\ prev' = IF replay THEN call ELSE NoCall
    /\ UNCHANGED <<tradesToday, lastTradeDate, calls>>
    /\ UNCHANGED detectorVars
    /\ UNCHANGED replayVars
    /\ UNCHANGED componentVars

NewsReturn ==
    /\ call.pc = "awaitNews"
    /\ \E newsCheck \in Read("news", NewsResults) :
          /\ call' = stepsAfterNews(call, newsCheck, clock)
          /\ world' = ("news" :> newsCheck) @@ world
    /\ UNCHANGED <<clock, tradesToday, lastTradeDate, prev, calls>>
    /\ UNCHANGED detectorVars
    /\ UNCHANGED replayVars
    /\ UNCHANGED componentVars

DataReturn ==
    /\ call.pc = "awaitData"
    /\ \E marketData \in Read("data", MarketDataSet) :
          /\ call' = stepsAfterData(call, marketData)
          /\ world' = ("data" :> marketData) @@ world
    /\ UNCHANGED <<clock, tradesToday, lastTradeDate, prev, calls>>
    /\ UNCHANGED detectorVars
    /\ UNCHANGED replayVars
    /\ UNCHANGED componentVars

ExternalReturn ==
    /\ call.pc = "awaitExternal"
    /\ \E externalData \in Read("external", analyzeExternalData) :
       \E r \in {x \in CandleResults :
                    \A k \in CandleKeys \cap DOMAIN world : x[k] = world[k]} :
          LET out == stepsAfterExternal(call, externalData, r, world["news"],
                         getHTFBiasAlignment(world["data"].bullish, world["data"].bearish),
                         clock, tradesToday, lastTradeDate)
          IN  /\ call' = out.call
              /\ tradesToday' = out.tradesToday
              /\ lastTradeDate' = out.lastTradeDate
              /\ world' = ("external" :> externalData) @@ Record(out.read, r)
    /\ UNCHANGED <<clock, prev, calls>>
    /\ UNCHANGED detectorVars
    /\ UNCHANGED replayVars
    /\ UNCHANGED componentVars

\* time passes while the evaluation waits for a collaborator
Tick ==
    /\ call.pc \in {"awaitNews", "awaitData", "awaitExternal"}
    /\ \E t \in Clocks : Later(clock, t) /\ clock' = t
    /\ call' = [call EXCEPT !.steady = FALSE]
    /\ UNCHANGED <<tradesToday, lastTradeDate, world, prev, calls>>
    /\ UNCHANGED detectorVars
    /\ UNCHANGED replayVars
    /\ UNCHANGED componentVars

\* no day has been replayed
NoOutcome ==
    [ ran |-> FALSE, traded |-> FALSE, prediction |-> "null", reason |-> "none", confluence |-> 0,
      entryPrice |-> 0, isWin |-> FALSE ]

\* const results = {...} of runBacktest, with the counters of its loop; the
\* trades are kept as the sequence of their isWin
\* skippedReasons: {}
NoReasons == [reason \in {} |-> 0]

NewResults ==
    [ totalDays |-> 0, tradedDays |-> 0, wins |-> 0, losses |-> 0,
      maxConsecutiveWins |-> 0, maxConsecutiveLosses |-> 0,
      consecutiveWins |-> 0, consecutiveLosses |-> 0, trades |-> <<>>, skippedReasons |-> NoReasons,
      days |-> 0 ]

STARTING_CAPITAL == 12

\* this.state of the BotCasino13 constructor; the trade history is kept as
\* the sequence of its isWin
NewState ==
    [ currentCapital |-> STARTING_CAPITAL, consecutiveWins |-> 0, totalTrades |-> 0,
      tradeHistory |-> <<>>, challengeActive |-> TRUE ]

\* a data source constructed with the options: this.isBacktestMode =
\* options.backtestMode || false, this.allowInBacktest likewise
NewSource(kind, options) ==
    [ kind |-> kind, options |-> options,
      isBacktestMode |-> options.backtestMode = "true",
      allowInBacktest |-> options.allowInBacktest = "true",
      cache |-> "empty", pc |-> "idle", returned |-> "none",
      cacheReads |-> 0, fetches |-> 0, calls |-> 0 ]

NoOptions == [backtestMode |-> "undefined", allowInBacktest |-> "undefined"]

ComponentsIdle ==
    /\ results = NewResults
    /\ state = NewState
    /\ source = NewSource("NewsSentiment", NoOptions)
    /\ lastCheck = "none"

\* CONFIG.HTF_BIAS.ALLOW_NEUTRAL_BIAS, CONFIG.ICT.LIQUIDITY.SWEEP_REQUIRED and
\* SWEEP_REQUIRED_STRICT, CONFIG.ENTRY_MODELS.MMXM_ONLY and FVG_ONLY,
\* CONFIG.ICT.SMT.REQUIRED: none is set in the configuration, so each has
\* the value its default expression in simulateDay gives it
ALLOW_NEUTRAL_BIAS == FALSE
SWEEP_REQUIRED == TRUE
SWEEP_REQUIRED_STRICT == FALSE
MMXM_ONLY == FALSE
FVG_ONLY == TRUE
SMT_REQUIRED == FALSE

\* the settings simulateDay reads, with the values of the configuration
CONFIG ==
    [ ALLOW_NEUTRAL_BIAS |-> ALLOW_NEUTRAL_BIAS, SWEEP_REQUIRED |-> SWEEP_REQUIRED,
      SWEEP_REQUIRED_STRICT |-> SWEEP_REQUIRED_STRICT, MMXM_ONLY |-> MMXM_ONLY,
      SMT_REQUIRED |-> SMT_REQUIRED, MIN_SCORE_TO_TRADE |-> MIN_SCORE_TO_TRADE ]

ReplayIdle ==
    /\ config = CONFIG
    /\ dayCandles = <<>>
    /\ htfCandles = [tf \in {"4h", "1d"} |-> <<>>]
    /\ smtDayCandles = <<>>
    /\ decisionHour = 15
    /\ backtester = "runner"
    /\ outcome = NoOutcome
    /\ revisions = 0

Init ==
    /\ clock \in {t \in Clocks : t.day = 1}
    /\ tradesToday = 0
    /\ lastTradeDate = 0
    /\ call = NoCall
    /\ world = EmptyWorld
    /\ prev = NoCall
    /\ calls = NoCalls
    /\ candles = <<>>
    /\ lookback = 0
    /\ ReplayIdle
    /\ ComponentsIdle

Next ==
    \/ \E replay \in BOOLEAN, t \in Clocks : MakeDecision(replay, t)
    \/ NewsReturn
    \/ DataReturn
    \/ ExternalReturn
    \/ Tick

Spec == Init /\ [][Next]_vars

-----------------------------------------------------------------------------
(* Properties of makeDecision                                               *)

Traded(c) == c.pc = "done" /\ c.action \in {"LONG", "SHORT"}

Last(q) == q[Len(q)]

IsPrefix(p, q) == Len(p) <= Len(q) /\ \A i \in 1..Len(p) : p[i] = q[i]

Contains(q, x) == \E i \in 1..Len(q) : q[i] = x

\* the gates of the decision tree, in the documented order
Gates == <<"calendar", "news", "session", "volatility", "bias", "sweep",
           "entry", "confluence">>

IsGate(g) == Contains(Gates, g)

\* some entry pattern is valid for the direction, by the detector results
SomeEntryPattern(direction) ==
    \/ /\ "mmxm" \in DOMAIN world
       /\ world["mmxm"].tradeable /\ world["mmxm"].direction = direction
    \/ /\ {"fvgValid", "zone"} \subseteq DOMAIN world
       /\ world["fvgValid"] /\ correctZone(world["zone"], direction)
    \/ /\ "judas" \in DOMAIN world
       /\ world["judas"].tradeable /\ world["judas"].expectedReversal = direction

\* C4: makeDecision returns LONG or SHORT only if every gate holds: the day
\* is a trading day, no news blackout, the time is in a session window, the
\* volatility is in range, the bias is aligned and not neutral (and is the
\* direction traded), a sweep is present, an entry pattern is valid and the
\* score is at least the minimum; every other return is NO_TRADE.
C4_TradeOnlyIfAllGatesHold ==
    /\ call.action \in {"LONG", "SHORT", "NO_TRADE"}
    /\ Traded(call) =>
          /\ ~call.skipDay
          /\ {"news", "data", "swept"} \subseteq DOMAIN world
          /\ ~world["news"].blackout
          /\ call.kz.canTrade
          /\ ~world["data"].failed /\ world["data"].volatility = "ok"
          /\ world["data"].bullish # world["data"].bearish
          /\ world["data"].bullish >= MIN_ALIGNED_COUNT
                \/ world["data"].bearish >= MIN_ALIGNED_COUNT
          /\ call.action = "LONG" <=> world["data"].bullish > world["data"].bearish
          /\ call.direction = (IF call.action = "LONG" THEN "BULLISH" ELSE "BEARISH")
          /\ world["swept"]
          /\ SomeEntryPattern(call.direction)
          /\ call.confluenceScore >= MIN_SCORE_TO_TRADE

\* a SHORT decision taken on the FVG pattern, the MMXM pattern being rejected
C4_Witness ==
    /\ Traded(call) /\ call.action = "SHORT"
    /\ ~(world["mmxm"].tradeable /\ world["mmxm"].direction = "BEARISH")
    /\ world["fvgValid"]

\* C5: the gates are evaluated in the order calendar, news, session window,
\* volatility, bias, sweep, entry, confluence; the first gate that fails
\* ends the evaluation with NO_TRADE, and no later gate is evaluated nor its
\* collaborator called.
C5_GatesInOrder ==
    /\ IsPrefix(SelectSeq(call.trace, IsGate), Gates)
    /\ call.failed # "none" =>
          /\ call.pc = "done"
          /\ call.action = "NO_TRADE"
          /\ Last(call.trace) = call.failed

\* the sweep gate fails after five gates passed
C5_Witness ==
    /\ call.pc = "done" /\ call.failed = "sweep"
    /\ SelectSeq(call.trace, IsGate) =
          <<"calendar", "news", "session", "volatility", "bias", "sweep">>

\* the key of CONFIG.CONFLUENCE.FACTORS whose weight calculateConfluence adds
\* when it pushes the factor (tradeDecision.js 367-431); the silver bullet
\* bonus and the external factors have no key in the configuration
FactorKey(name) ==
    CASE name = "HTF_BIAS" -> "HTF_BIAS_ALIGNED"
      [] name = "KILLZONE" -> "KILLZONE_ACTIVE"
      [] name = "LIQUIDITY_SWEPT" -> "LIQUIDITY_SWEPT"
      [] name = "FVG" -> "FVG_PRESENT"
      [] name = "PD_ZONE" -> "PREMIUM_DISCOUNT_ZONE"
      [] name = "SMT" -> "SMT_DIVERGENCE"
      [] name = "NEWS_CLEAR" -> "NEWS_CLEAR"
      [] OTHER -> "none"

ConfiguredWeight(name) ==
    IF FactorKey(name) \in DOMAIN FACTORS THEN FACTORS[FactorKey(name)] ELSE 0

RECURSIVE SumOfConfiguredWeights(_)
SumOfConfiguredWeights(names) ==
    IF names = <<>> THEN 0
    ELSE ConfiguredWeight(Head(names)) + SumOfConfiguredWeights(Tail(names))

\* C6: the confluence score equals exactly the sum of the configured weights
\* of the factors listed in presentFactors.
C6_ScoreIsSumOfConfiguredWeights ==
    call.confluenceScore = SumOfConfiguredWeights(call.presentFactors)

Decision(c) == <<c.action, c.direction, c.confluenceScore, c.reasons>>

\* the evaluation that just returned repeated the previous one: same
\* collaborator results, same clock reading throughout both
Repeated ==
    /\ call.pc = "done" /\ call.replay
    /\ call.steady /\ prev.steady

\* C7: evaluating the same series, cursor and configuration twice on the same
\* engine yields the same Decision (action, direction, score, reasons); the
\* first evaluation leaves no state behind that changes the second.
C7_SecondEvaluationIdentical ==
    Repeated => Decision(call) = Decision(prev)

\* C8: when the trades decided on the current date have reached
\* MAX_TRADES_PER_DAY, the evaluation returns LONG or SHORT only if the score
\* is at least A_PLUS_SCORE and the second-trade exception is enabled; a
\* setup that passed every gate otherwise returns NO_TRADE with the
\* daily-limit reason.
C8_DailyLimit ==
    [][ ( /\ call.pc = "awaitExternal"
          /\ call'.pc = "done"
          /\ lastTradeDate = clock.day
          /\ tradesToday >= MAX_TRADES_PER_DAY )
        => /\ Traded(call') =>
                 /\ call'.confluenceScore >= A_PLUS_SCORE
                 /\ ALLOW_SECOND_TRADE_IF_A_PLUS
           /\ ( /\ ~Traded(call')
                /\ call'.confluenceScore >= MIN_SCORE_TO_TRADE )
              => /\ call'.action = "NO_TRADE"
                 /\ Last(call'.reasons) = "DAILY_LIMIT"
                 /\ tradesToday' = tradesToday ]_vars

\* a second trade on the same day, allowed as an A+ setup
C8_Witness ==
    /\ Traded(call)
    /\ call.limitReached
    /\ tradesToday = MAX_TRADES_PER_DAY + 1
    /\ Contains(call.reasons, "A_PLUS_SETUP")

\* the collaborators failed or had too little data at this cursor
\* the evaluation got the answer of getAnalysisData
DataRead == call.pc \in {"done", "awaitExternal"} /\ Contains(call.trace, "volatility")

CollaboratorFailed ==
    /\ DataRead
    /\ world["data"].failed \/ world["data"].volatility = "null"

\* C9: makeDecision never throws; with too few candles or swings, or when a
\* collaborator fails, it returns a well-formed NO_TRADE Decision whose
\* reasons state the failure.
C9_NeverThrows ==
    /\ call.pc # "thrown"
    /\ (call.pc = "done" /\ CollaboratorFailed) =>
          /\ call.error
          /\ call.action = "NO_TRADE"
          /\ call.confluenceScore = 0
          /\ call.reasons # <<>> /\ Last(call.reasons) = "ERROR"
    /\ ( /\ call.pc = "done" /\ DataRead
         /\ world["data"].volatility = "ok"
         /\ world["data"].bullish = 0 /\ world["data"].bearish = 0 ) =>
          /\ call.action = "NO_TRADE"
          /\ Last(call.reasons) = "NO_HTF_ALIGNMENT"

\* the market data could not be fetched and the evaluation returned
C9_Witness ==
    /\ call.pc = "done"
    /\ DataRead /\ world["data"].failed
    /\ call.reasons = <<"ERROR">>

-----------------------------------------------------------------------------
(***************************************************************************)
(* Part II : the candle detectors.  A candle is [open, high, low, close];  *)
(* prices are integers, one unit being 0.01.  Arrays are indexed from 0 as *)
(* in the source: At(a, i) is a[i].                                        *)
(***************************************************************************)

At(a, i) == a[i + 1]

\* Array.prototype.slice(from, to) for 0 <= from
Slice(a, from, to) ==
    IF to <= from THEN <<>> ELSE SubSeq(a, from + 1, IF to > Len(a) THEN Len(a) ELSE to)

\* Array.prototype.slice(-k)
SliceLast(a, k) == IF k >= Len(a) THEN a ELSE SubSeq(a, Len(a) - k + 1, Len(a))

Max(a, b) == IF a >= b THEN a ELSE b

Min(a, b) == IF a <= b THEN a ELSE b

Abs(x) == IF x < 0 THEN -x ELSE x

\* the elements of a finite set of integers in increasing order
RECURSIVE SortedSeq(_)
SortedSeq(S) ==
    IF S = {} THEN <<>>
    ELSE LET m == CHOOSE x \in S : \A y \in S : x <= y
         IN  <<m>> \o SortedSeq(S \ {m})

\* variant: the bound of the offline mode is used in the online mode
swingMaxIndex_offline(len, lb, onlineMode) == len - lb

\* const maxIndex = onlineMode ? candles.length - lookback - 1 : candles.length - lookback
swingMaxIndex(len, lb, onlineMode) ==
    IF onlineMode THEN len - lb - 1 ELSE len - lb

isSwingHigh(a, i, lb) ==
    /\ \A j \in 1..lb : ~(At(a, i - j).high >= At(a, i).high)
    /\ \A j \in 1..lb : i + j < Len(a) => ~(At(a, i + j).high >= At(a, i).high)

isSwingLow(a, i, lb) ==
    /\ \A j \in 1..lb : ~(At(a, i - j).low <= At(a, i).low)
    /\ \A j \in 1..lb : i + j < Len(a) => ~(At(a, i + j).low <= At(a, i).low)

\* MarketStructure.identifySwings: the swings in index order
identifySwings(a, lb, onlineMode) ==
    LET range == lb..(swingMaxIndex(Len(a), lb, onlineMode) - 1)
    IN  [ swingHighs |-> [k \in 1..Cardinality({i \in range : isSwingHigh(a, i, lb)}) |->
              LET i == SortedSeq({x \in range : isSwingHigh(a, x, lb)})[k]
              IN  [index |-> i, price |-> At(a, i).high]],
          swingLows |-> [k \in 1..Cardinality({i \in range : isSwingLow(a, i, lb)}) |->
              LET i == SortedSeq({x \in range : isSwingLow(a, x, lb)})[k]
              IN  [index |-> i, price |-> At(a, i).low]] ]

\* SMTDivergence.findSwingHighs
findSwingHighs(a, lb, onlineMode) ==
    LET range == lb..(swingMaxIndex(Len(a), lb, onlineMode) - 1)
        idx == SortedSeq({i \in range : isSwingHigh(a, i, lb)})
    IN  [k \in 1..Len(idx) |-> [index |-> idx[k], price |-> At(a, idx[k]).high]]

\* SMTDivergence.findSwingLows
findSwingLows(a, lb, onlineMode) ==
    LET range == lb..(swingMaxIndex(Len(a), lb, onlineMode) - 1)
        idx == SortedSeq({i \in range : isSwingLow(a, i, lb)})
    IN  [k \in 1..Len(idx) |-> [index |-> idx[k], price |-> At(a, idx[k]).low]]

\* the candles the swing detectors are exercised with
SwingCandles ==
    { [open |-> 1000, high |-> 1010, low |-> 990, close |-> 1000],
      [open |-> 1005, high |-> 1020, low |-> 1000, close |-> 1015],
      [open |-> 995, high |-> 1000, low |-> 980, close |-> 985] }

\* lookbacks: 1, and CONFIG.ICT.STRUCTURE.SWING_LOOKBACK_HTF
SWING_LOOKBACK_HTF == 3

SwingLookbacks == {1, SWING_LOOKBACK_HTF}

EngineIdle ==
    /\ clock = [day |-> 1, minute |-> 300]
    /\ tradesToday = 0
    /\ lastTradeDate = 0
    /\ call = NoCall
    /\ world = EmptyWorld
    /\ prev = NoCall
    /\ calls = NoCalls

InitSwing ==
    /\ EngineIdle
    /\ ReplayIdle
    /\ ComponentsIdle
    /\ candles = <<>>
    /\ lookback \in SwingLookbacks

\* the series grows by one candle: the cursor moves on
AppendSwingCandle ==
    /\ Len(candles) < MaxSwingLen
    /\ \E c \in SwingCandles : candles' = Append(candles, c)
    /\ UNCHANGED lookback
    /\ UNCHANGED engineVars
    /\ UNCHANGED replayVars
    /\ UNCHANGED componentVars

NextSwing == AppendSwingCandle

SpecSwing == InitSwing /\ [][NextSwing]_vars

SwingIndexes(q) == {q[k].index : k \in 1..Len(q)}

\* C3: an online swing query over a slice whose last index is n returns a
\* swing at index i only if i <= n - lookback - 1: a candidate with fewer
\* than lookback later candles in the slice is never returned.
C3_SwingsAreConfirmed ==
    LET n == Len(candles) - 1
        swings == identifySwings(candles, lookback, TRUE)
    IN  \A i \in SwingIndexes(swings.swingHighs) \cup SwingIndexes(swings.swingLows)
              \cup SwingIndexes(findSwingHighs(candles, lookback, TRUE))
              \cup SwingIndexes(findSwingLows(candles, lookback, TRUE)) :
           /\ i <= n - lookback - 1
           /\ n - i >= lookback

\* a swing high is returned at the last index the bound allows
C3_Witness ==
    LET n == Len(candles) - 1
    IN  /\ lookback = SWING_LOOKBACK_HTF
        /\ n - lookback - 1 \in SwingIndexes(identifySwings(candles, lookback, TRUE).swingHighs)
        /\ n - lookback - 1 \in SwingIndexes(findSwingHighs(candles, lookback, TRUE))

-----------------------------------------------------------------------------
(* FairValueGap (src/src/ict/fairValueGap.js).  Percentages are compared    *)
(* by cross-multiplication; the midpoint of a gap is kept doubled (mid2).  *)

\* CONFIG.ICT.FVG: MIN_SIZE_PERCENT 0.15, MAX_SIZE_PERCENT 1.5,
\* DISPLACEMENT_MIN_SIZE 0.3 (in hundredths of a percent)
FVG_MIN_SIZE_PERCENT == 15
FVG_MAX_SIZE_PERCENT == 150
DISPLACEMENT_MIN_SIZE == 30
REQUIRE_DISPLACEMENT == TRUE

\* gapPercent >= MIN_SIZE_PERCENT && gapPercent <= MAX_SIZE_PERCENT
gapSizeOK(gapSize, candle2) ==
    /\ gapSize * 10000 >= FVG_MIN_SIZE_PERCENT * candle2.close
    /\ gapSize * 10000 <= FVG_MAX_SIZE_PERCENT * candle2.close

hasDisplacement(candle2) ==
    Abs(candle2.close - candle2.open) * 10000 >= DISPLACEMENT_MIN_SIZE * candle2.open

isBullishFVG(a, i) ==
    /\ At(a, i).low > At(a, i - 2).high
    /\ gapSizeOK(At(a, i).low - At(a, i - 2).high, At(a, i - 1))
    /\ ~REQUIRE_DISPLACEMENT \/ hasDisplacement(At(a, i - 1))

isBearishFVG(a, i) ==
    /\ At(a, i - 2).low > At(a, i).high
    /\ gapSizeOK(At(a, i - 2).low - At(a, i).high, At(a, i - 1))
    /\ ~REQUIRE_DISPLACEMENT \/ hasDisplacement(At(a, i - 1))

bullishFVG(a, i) ==
    [ type |-> "BULLISH_FVG", high |-> At(a, i).low, low |-> At(a, i - 2).high,
      mid2 |-> At(a, i).low + At(a, i - 2).high, index |-> i - 1,
      hasDisplacement |-> hasDisplacement(At(a, i - 1)) ]

bearishFVG(a, i) ==
    [ type |-> "BEARISH_FVG", high |-> At(a, i - 2).low, low |-> At(a, i).high,
      mid2 |-> At(a, i - 2).low + At(a, i).high, index |-> i - 1,
      hasDisplacement |-> hasDisplacement(At(a, i - 1)) ]

\* FairValueGap.detectFVGs: the gaps in index order
detectFVGs(a, onlineMode) ==
    LET maxIndex == IF onlineMode THEN Len(a) - 1 ELSE Len(a)
        bull == SortedSeq({i \in 2..(maxIndex - 1) : isBullishFVG(a, i)})
        bear == SortedSeq({i \in 2..(maxIndex - 1) : isBearishFVG(a, i)})
    IN  [ bullish |-> [k \in 1..Len(bull) |-> bullishFVG(a, bull[k])],
          bearish |-> [k \in 1..Len(bear) |-> bearishFVG(a, bear[k])] ]

\* variant: only the recent candles (candles.slice(-10, -1)) are scanned
fillScanStart_recent(a, fvg) == Max(fvg.index + 1, Len(a) - 10)

\* for (let i = fvg.index + 1; i < maxCheckIndex; i++)
fillScanStart(a, fvg) == fvg.index + 1

\* the indexes of the completed candles after the gap
fillScan(a, fvg) == fillScanStart(a, fvg)..(Len(a) - 2)

\* variant: a gap counts as filled once its midpoint is reached
isFilled_midpoint(a, fvg) ==
    IF fvg.type = "BULLISH_FVG"
    THEN \E i \in fillScan(a, fvg) : 2 * At(a, i).low <= fvg.mid2
    ELSE \E i \in fillScan(a, fvg) : 2 * At(a, i).high >= fvg.mid2

\* filled of the fill scan: a completed candle after the gap reached its far
\* side
isFilled(a, fvg) ==
    IF fvg.type = "BULLISH_FVG"
    THEN \E i \in fillScan(a, fvg) : At(a, i).low <= fvg.low
    ELSE \E i \in fillScan(a, fvg) : At(a, i).high >= fvg.high

\* partiallyFilled of a gap that is not filled
isPartiallyFilled(a, fvg) ==
    IF fvg.type = "BULLISH_FVG"
    THEN \E i \in fillScan(a, fvg) : 2 * At(a, i).low <= fvg.mid2
    ELSE \E i \in fillScan(a, fvg) : 2 * At(a, i).high >= fvg.mid2

\* the entry pushed to unfilled.bullish / unfilled.bearish; the distance to
\* the gap is kept as the numerator over currentPrice
unfilledFVG(a, fvg) ==
    LET currentPrice == At(a, Len(a) - 1).open
        distance == IF fvg.type = "BULLISH_FVG" THEN currentPrice - fvg.high
                    ELSE fvg.low - currentPrice
    IN  [ type |-> fvg.type, high |-> fvg.high, low |-> fvg.low, mid2 |-> fvg.mid2,
          index |-> fvg.index, hasDisplacement |-> fvg.hasDisplacement,
          partiallyFilled |-> isPartiallyFilled(a, fvg),
          distance |-> distance, currentPrice |-> currentPrice,
          isApproaching |-> distance * 100 < currentPrice /\ distance * 200 > -currentPrice,
          isInside |-> currentPrice <= fvg.high /\ currentPrice >= fvg.low ]

allFvgs(a) == detectFVGs(Slice(a, 0, Len(a) - 10), TRUE)

\* FairValueGap.findUnfilledFVGs
findUnfilledFVGs(a) ==
    LET keepB == SelectSeq(allFvgs(a).bullish, LAMBDA g : ~isFilled(a, g))
        keepS == SelectSeq(allFvgs(a).bearish, LAMBDA g : ~isFilled(a, g))
    IN  [ bullish |-> [k \in 1..Len(keepB) |-> unfilledFVG(a, keepB[k])],
          bearish |-> [k \in 1..Len(keepS) |-> unfilledFVG(a, keepS[k])] ]

\* the candles the gap detector is exercised with, by position in the series
FVGBase == [open |-> 995, high |-> 1000, low |-> 990, close |-> 996]
FVGUp   == [open |-> 998, high |-> 1012, low |-> 997, close |-> 1010]
FVGHigh == [open |-> 1010, high |-> 1015, low |-> 1008, close |-> 1012]
FVGDown == [open |-> 1009, high |-> 1010, low |-> 998, close |-> 999]
FVGLow  == [open |-> 999, high |-> 1002, low |-> 994, close |-> 1000]
FVGMid  == [open |-> 1010, high |-> 1012, low |-> 1003, close |-> 1009]

FVGCandles(position) ==
    CASE position = 1 -> {FVGBase, FVGHigh}
      [] position = 2 -> {FVGUp, FVGDown}
      [] position = 5 -> {FVGHigh, FVGLow, FVGMid}
      [] OTHER -> {FVGHigh, FVGLow}

InitFVG ==
    /\ EngineIdle
    /\ ReplayIdle
    /\ ComponentsIdle
    /\ candles = <<>>
    /\ lookback = 0

\* the series grows by one candle: the cursor moves on
AppendFVGCandle ==
    /\ Len(candles) < MaxFVGLen
    /\ \E c \in FVGCandles(Len(candles) + 1) : candles' = Append(candles, c)
    /\ UNCHANGED lookback
    /\ UNCHANGED engineVars
    /\ UNCHANGED replayVars
    /\ UNCHANGED componentVars

NextFVG == AppendFVGCandle

SpecFVG == InitFVG /\ [][NextFVG]_vars

GapIds(q) == {<<q[k].type, q[k].index>> : k \in 1..Len(q)}

\* the gaps classified filled at the cursor of series a
FilledGaps(a) ==
    IF Len(a) = 0 THEN {}
    ELSE (GapIds(allFvgs(a).bullish) \cup GapIds(allFvgs(a).bearish))
            \ (GapIds(findUnfilledFVGs(a).bullish) \cup GapIds(findUnfilledFVGs(a).bearish))

\* C10: a gap classified filled at some cursor is classified filled at every
\* later cursor: appending candles never un-fills a gap.
C10_FilledStaysFilled ==
    [][ FilledGaps(candles) \subseteq FilledGaps(candles') ]_vars

\* a bullish gap was filled at the previous cursor already and is still
\* classified filled
C10_Witness ==
    /\ Len(candles) = MaxFVGLen
    /\ \E g \in FilledGaps(SubSeq(candles, 1, Len(candles) - 1)) :
          g[1] = "BULLISH_FVG" /\ g \in FilledGaps(candles)

-----------------------------------------------------------------------------
(* LiquidityAnalysis (src/unnamed/part_009).  The price of a pool is the    *)
(* average of its touches and is kept as sum / touches; the strength of a  *)
(* sweep is poolStrength + 10 * wick / body.                               *)

\* CONFIG.ICT.LIQUIDITY: EQUAL_HIGHS_LOWS_TOLERANCE 0.05 (%), in hundredths
EQUAL_HIGHS_LOWS_TOLERANCE == 5
MIN_LIQUIDITY_POOL_TOUCHES == 2
SWEEP_CONFIRMATION_CANDLES == 3

\* Math.abs(price - avg) / avg <= tolerance, for avg = group.sum / group.n
withinTolerance(price, group) ==
    Abs(price * group.n - group.sum) * 10000 <= EQUAL_HIGHS_LOWS_TOLERANCE * group.sum

\* the index of the first group the price joins, 0 if there is none
firstGroup(price, groups) ==
    IF \E g \in 1..Len(groups) : withinTolerance(price, groups[g])
    THEN CHOOSE g \in 1..Len(groups) :
            /\ withinTolerance(price, groups[g])
            /\ \A h \in 1..(g - 1) : ~withinTolerance(price, groups[h])
    ELSE 0

\* the groups after the prices from position k on were added one by one
RECURSIVE groupPrices(_, _, _)
groupPrices(prices, k, groups) ==
    IF k > Len(prices) THEN groups
    ELSE LET g == firstGroup(prices[k], groups)
         IN  groupPrices(prices, k + 1,
                 IF g = 0
                 THEN Append(groups, [sum |-> prices[k], n |-> 1])
                 ELSE [groups EXCEPT ![g] = [sum |-> @.sum + prices[k], n |-> @.n + 1]])

\* a stable sort putting greater elements first (Array.prototype.sort with
\* the comparator (a, b) => key(b) - key(a)); greater[i][j] tells whether
\* q[i] has the greater key
SortDescending(q, greater) ==
    LET place(i) ==
            1 + Cardinality({j \in 1..Len(q) : greater[j][i]})
              + Cardinality({j \in 1..(i - 1) : ~greater[i][j] /\ ~greater[j][i]})
    IN  [k \in 1..Len(q) |-> q[CHOOSE i \in 1..Len(q) : place(i) = k]]

strongerPool(a, b) == a.strength > b.strength

\* the pools of the groups with enough touches, strongest first
liquidityPools(prices, type) ==
    LET groups == groupPrices(prices, 1, <<>>)
        enough == SelectSeq(groups, LAMBDA g : g.n >= MIN_LIQUIDITY_POOL_TOUCHES)
        pools == [k \in 1..Len(enough) |->
                     [type |-> type, sum |-> enough[k].sum, touches |-> enough[k].n,
                      strength |-> enough[k].n * 10]]
    IN  SortDescending(pools, [i \in 1..Len(pools) |-> [j \in 1..Len(pools) |->
                                 strongerPool(pools[i], pools[j])]])

\* LiquidityAnalysis.findEqualHighs
findEqualHighs(a, onlineMode) ==
    LET maxIndex == IF onlineMode THEN Len(a) - 1 ELSE Len(a)
    IN  liquidityPools([k \in 1..Max(maxIndex, 0) |-> a[k].high], "EQUAL_HIGHS")

\* LiquidityAnalysis.findEqualLows
findEqualLows(a, onlineMode) ==
    LET maxIndex == IF onlineMode THEN Len(a) - 1 ELSE Len(a)
    IN  liquidityPools([k \in 1..Max(maxIndex, 0) |-> a[k].low], "EQUAL_LOWS")

\* Math.abs(close - open) || 0.01
bodySize(c) == IF c.close = c.open THEN 1 ELSE Abs(c.close - c.open)

\* const confirmationCandles = candles.slice(i + 1, i + 1 + confirmationNeeded)
confirmationCandles(a, i) == Slice(a, i + 1, i + 1 + SWEEP_CONFIRMATION_CANDLES)

isBuySideSweep(a, i, pool) ==
    LET c == At(a, i)
        wickAbove == c.high - Max(c.open, c.close)
    IN  /\ c.high * pool.touches > pool.sum
        /\ c.close * pool.touches < pool.sum
        /\ 2 * wickAbove > bodySize(c)
        /\ Len(confirmationCandles(a, i)) >= SWEEP_CONFIRMATION_CANDLES
        /\ \A k \in 1..Len(confirmationCandles(a, i)) :
              confirmationCandles(a, i)[k].close * pool.touches < pool.sum

isSellSideSweep(a, i, pool) ==
    LET c == At(a, i)
        wickBelow == Min(c.open, c.close) - c.low
    IN  /\ c.low * pool.touches < pool.sum
        /\ c.close * pool.touches > pool.sum
        /\ 2 * wickBelow > bodySize(c)
        /\ Len(confirmationCandles(a, i)) >= SWEEP_CONFIRMATION_CANDLES
        /\ \A k \in 1..Len(confirmationCandles(a, i)) :
              confirmationCandles(a, i)[k].close * pool.touches > pool.sum

sweepOf(a, i, pool, buySide) ==
    LET c == At(a, i)
    IN  [ type |-> IF buySide THEN "BUY_SIDE_SWEEP" ELSE "SELL_SIDE_SWEEP",
          direction |-> IF buySide THEN "BEARISH" ELSE "BULLISH",
          index |-> i, liquidityPool |-> pool,
          sweepPrice |-> IF buySide THEN c.high ELSE c.low,
          wick |-> IF buySide THEN c.high - Max(c.open, c.close)
                   ELSE Min(c.open, c.close) - c.low,
          body |-> bodySize(c) ]

\* a.strength > b.strength
strongerSweep(x, y) ==
    (x.liquidityPool.strength * x.body + 10 * x.wick) * y.body
        > (y.liquidityPool.strength * y.body + 10 * y.wick) * x.body

\* the sweeps of the pools from position p on, pool by pool, index by index
RECURSIVE sweepsOfPools(_, _, _, _, _)
sweepsOfPools(a, pools, p, range, buySide) ==
    IF p > Len(pools) THEN <<>>
    ELSE LET hit == SortedSeq({i \in range :
                       IF buySide THEN isBuySideSweep(a, i, pools[p])
                       ELSE isSellSideSweep(a, i, pools[p])})
         IN  [k \in 1..Len(hit) |-> sweepOf(a, hit[k], pools[p], buySide)]
                \o sweepsOfPools(a, pools, p + 1, range, buySide)

\* LiquidityAnalysis.detectLiquiditySweep
detectLiquiditySweep(a, onlineMode) ==
    LET equalHighs == findEqualHighs(Slice(a, 0, Len(a) - 10), onlineMode)
        equalLows == findEqualLows(Slice(a, 0, Len(a) - 10), onlineMode)
        maxSweepIndex == IF onlineMode THEN Len(a) - SWEEP_CONFIRMATION_CANDLES - 1
                         ELSE Len(a) - 1
        startIndex == Max(0, Len(a) - 20)
        range == startIndex..maxSweepIndex
        sweeps == sweepsOfPools(a, equalHighs, 1, range, TRUE)
                      \o sweepsOfPools(a, equalLows, 1, range, FALSE)
    IN  SortDescending(sweeps, [i \in 1..Len(sweeps) |-> [j \in 1..Len(sweeps) |->
                                   strongerSweep(sweeps[i], sweeps[j])]])

\* LiquidityAnalysis.hasRecentLiquiditySweep
hasRecentLiquiditySweep(a, expectedDirection) ==
    LET sweeps == detectLiquiditySweep(a, TRUE)
        matchingSweeps == SelectSeq(sweeps, LAMBDA x : x.direction = expectedDirection)
    IN  IF matchingSweeps = <<>>
        THEN [swept |-> FALSE, index |-> -1]
        ELSE IF Len(a) - 1 - matchingSweeps[1].index > 10
        THEN [swept |-> FALSE, index |-> matchingSweeps[1].index]
        ELSE [swept |-> TRUE, index |-> matchingSweeps[1].index]

\* the candles the sweep detector is exercised with; all open at 1000
SweepFlat  == [open |-> 1000, high |-> 1005, low |-> 995, close |-> 1000]
SweepSpike == [open |-> 1000, high |-> 1012, low |-> 998, close |-> 1002]
SweepAbove == [open |-> 1000, high |-> 1010, low |-> 999, close |-> 1008]
SweepDip   == [open |-> 1000, high |-> 1002, low |-> 988, close |-> 998]
SweepSpikeHigh == [open |-> 1000, high |-> 1014, low |-> 998, close |-> 1002]

SweepCandles(position) ==
    IF position <= 2 THEN {SweepFlat}
    ELSE IF position = 3 THEN {SweepSpike, SweepAbove, SweepSpikeHigh}
    ELSE IF position % 2 = 1 THEN {SweepSpike, SweepAbove}
    ELSE {SweepDip, SweepFlat}

InitSweep ==
    /\ EngineIdle
    /\ ReplayIdle
    /\ ComponentsIdle
    /\ candles = <<>>
    /\ lookback = 0

\* the series grows by one candle: the cursor moves on
AppendSweepCandle ==
    /\ Len(candles) < MaxSweepLen
    /\ \E c \in SweepCandles(Len(candles) + 1) : candles' = Append(candles, c)
    /\ UNCHANGED lookback
    /\ UNCHANGED engineVars
    /\ UNCHANGED replayVars
    /\ UNCHANGED componentVars

NextSweep == AppendSweepCandle

SpecSweep == InitSweep /\ [][NextSweep]_vars

\* the series with the high, low and close of its last candle changed;
\* the open is what it was
AlteredCursor(a) ==
    { [a EXCEPT ![Len(a)] = c] :
         c \in {x \in {SweepFlat, SweepSpike, SweepAbove, SweepDip} :
                   x.open = a[Len(a)].open} }

\* C2: no online detector uses the high, low or close of the cursor (last)
\* candle: changing only these three fields of the last candle leaves the
\* detected sweeps and the unfilled gaps unchanged.
C2_CursorCandleUnused ==
    Len(candles) > 0 =>
        \A b \in AlteredCursor(candles) :
            /\ detectLiquiditySweep(b, TRUE) = detectLiquiditySweep(candles, TRUE)
            /\ findUnfilledFVGs(b) = findUnfilledFVGs(candles)

-----------------------------------------------------------------------------
(* MarketStructure bias (src/unnamed/part_009)                              *)

\* CONFIG.ICT.STRUCTURE.SWING_LOOKBACK
SWING_LOOKBACK == 5

\* how many of the swings are higher than the swing before them
higherCount(recent) ==
    Cardinality({i \in 2..Len(recent) : recent[i].price > recent[i - 1].price})

\* bullishScore and bearishScore over the last four swing highs and lows
biasScores(swings) ==
    LET recentHighs == SliceLast(swings.swingHighs, 4)
        recentLows == SliceLast(swings.swingLows, 4)
        higherHighs == higherCount(recentHighs)
        lowerHighs == (Len(recentHighs) - 1) - higherHighs
        higherLows == higherCount(recentLows)
        lowerLows == (Len(recentLows) - 1) - higherLows
    IN  [bullishScore |-> higherHighs + higherLows, bearishScore |-> lowerHighs + lowerLows]

\* MarketStructure.determineBias: default lookback, a margin of one
determineBias(a) ==
    LET swings == identifySwings(a, SWING_LOOKBACK, TRUE)
        s == biasScores(swings)
    IN  [ bias |-> IF Len(swings.swingHighs) < 2 \/ Len(swings.swingLows) < 2 THEN "NEUTRAL"
                   ELSE IF s.bullishScore > s.bearishScore + 1 THEN "BULLISH"
                   ELSE IF s.bearishScore > s.bullishScore + 1 THEN "BEARISH"
                   ELSE "NEUTRAL" ]

\* MarketStructure.determineBiasWithLookback
determineBiasWithLookback(a, lb) ==
    LET swings == identifySwings(a, lb, TRUE)
        s == biasScores(swings)
    IN  [ bias |-> IF Len(swings.swingHighs) < 2 \/ Len(swings.swingLows) < 2 THEN "NEUTRAL"
                   ELSE IF s.bullishScore > s.bearishScore THEN "BULLISH"
                   ELSE IF s.bearishScore > s.bullishScore THEN "BEARISH"
                   ELSE "NEUTRAL" ]

htfTimeframes == {"4h", "1d", "1w"}

\* MarketStructure.getHTFBiasAlignment over the candles of each timeframe
getHTFBiasAlignmentOf(timeframeData) ==
    LET lookbackOf(tf) == IF tf \in htfTimeframes THEN SWING_LOOKBACK_HTF ELSE SWING_LOOKBACK
        biases == [tf \in DOMAIN timeframeData |->
                      determineBiasWithLookback(timeframeData[tf], lookbackOf(tf))]
        bullishCount == Cardinality({tf \in DOMAIN timeframeData : biases[tf].bias = "BULLISH"})
        bearishCount == Cardinality({tf \in DOMAIN timeframeData : biases[tf].bias = "BEARISH"})
    IN  getHTFBiasAlignment(bullishCount, bearishCount)

-----------------------------------------------------------------------------
(* FairValueGap entry (src/src/ict/fairValueGap.js)                         *)

\* score * candles.length of a gap: recency * 30 + 40 if approaching + 50 if
\* inside + 20 with displacement - 10 if partially filled
fvgScore(a, fvg) ==
    30 * (Len(a) - fvg.index)
      + Len(a) * ( (IF fvg.isApproaching THEN 40 ELSE 0) + (IF fvg.isInside THEN 50 ELSE 0)
                   + (IF fvg.hasDisplacement THEN 20 ELSE 0)
                   - (IF fvg.partiallyFilled THEN 10 ELSE 0) )

\* the gap with the highest score among the target gaps
bestOf(a, targetFvgs) ==
    IF targetFvgs = <<>> THEN [found |-> FALSE]
    ELSE [ found |-> TRUE,
           fvg |-> SortDescending(targetFvgs,
                       [i \in 1..Len(targetFvgs) |-> [j \in 1..Len(targetFvgs) |->
                           fvgScore(a, targetFvgs[i]) > fvgScore(a, targetFvgs[j])]])[1] ]

\* FairValueGap.findBestFVG
findBestFVG(a, bias) ==
    bestOf(a, IF bias = "BULLISH" THEN findUnfilledFVGs(a).bullish
              ELSE findUnfilledFVGs(a).bearish)

\* the entry at the best gap: not farther than maxDistancePercent (5.0)
\* unless the price is inside the gap
entryAt(best) ==
    [ valid |-> /\ best.found
                /\ ~( /\ Abs(best.fvg.distance) * 100 > 5 * best.fvg.currentPrice
                      /\ ~best.fvg.isInside ) ]

\* FairValueGap.isAtFVGEntry
isAtFVGEntry(a, bias) == entryAt(findBestFVG(a, bias))

-----------------------------------------------------------------------------
(* MMXM (src/src/ict/mmxm.js)                                               *)

\* CONFIG.ICT.MMXM.MIN_MANIPULATION_PERCENT 0.3, in hundredths of a percent
MIN_MANIPULATION_PERCENT == 30

\* the manipulation at the strongest sweep: a significant move with a
\* strong rejection
manipulationAt(a, sweeps) ==
    LET latestSweep == sweeps[1]
        sweepCandle == At(a, sweeps[1].index)
        move == IF latestSweep.type = "BUY_SIDE_SWEEP" THEN sweepCandle.high - sweepCandle.open
                ELSE sweepCandle.open - sweepCandle.low
        body == Abs(sweepCandle.close - sweepCandle.open)
        totalSize == sweepCandle.high - sweepCandle.low
    IN  IF sweeps = <<>> THEN [detected |-> FALSE, expectedDistributionDirection |-> "null"]
        ELSE [ detected |-> /\ move * 10000 >= MIN_MANIPULATION_PERCENT * sweepCandle.open
                            /\ 2 * (totalSize - body) > totalSize,
               expectedDistributionDirection |-> latestSweep.direction ]

\* MMXM.detectManipulation
detectManipulation(a) == manipulationAt(a, detectLiquiditySweep(a, TRUE))

\* the cycle of a manipulation: tradeable in the phases DISTRIBUTION and
\* MANIPULATION_COMPLETE, both of which require a detected manipulation
cycleOf(manipulation, htfBias) ==
    [ tradeable |-> manipulation.detected,
      direction |-> IF manipulation.detected
                    THEN manipulation.expectedDistributionDirection ELSE htfBias ]

\* MMXM.analyzeMMXMCycle, as far as the replay reads it
analyzeMMXMCycle(a, htfBias) == cycleOf(detectManipulation(a), htfBias)

-----------------------------------------------------------------------------
(* SMTDivergence (src/src/data/newsSentiment.js).  The correlation is a     *)
(* quotient of sums; it is compared with the threshold on the exact        *)
(* fractions, the means being kept as sum / n.                             *)

\* CONFIG.ICT.SMT: CORRELATION_THRESHOLD 0.85 (in hundredths),
\* DIVERGENCE_LOOKBACK 20, MIN_DIVERGENCE_PERCENT 0.5 (in tenths of a percent)
CORRELATION_THRESHOLD == 85
DIVERGENCE_LOOKBACK == 20
MIN_DIVERGENCE_PERCENT == 5

RECURSIVE SumSeq(_)
SumSeq(q) == IF q = <<>> THEN 0 ELSE Head(q) + SumSeq(Tail(q))

\* a / b < c / d for positive integers, by the continued fractions
RECURSIVE LessFraction(_, _, _, _)
LessFraction(a, b, c, d) ==
    IF a \div b # c \div d THEN a \div b < c \div d
    ELSE IF c % d = 0 THEN FALSE
    ELSE IF a % b = 0 THEN TRUE
    ELSE LessFraction(d, c % d, b, a % b)

\* calculateCorrelation(series1, series2) < CORRELATION_THRESHOLD; the
\* differences to the mean are multiplied by n
correlationTooLow(series1, series2) ==
    LET n == Len(series1)
        diff1 == [i \in 1..n |-> n * series1[i] - SumSeq(series1)]
        diff2 == [i \in 1..n |-> n * series2[i] - SumSeq(series2)]
        numerator == SumSeq([i \in 1..n |-> diff1[i] * diff2[i]])
        denom1 == SumSeq([i \in 1..n |-> diff1[i] * diff1[i]])
        denom2 == SumSeq([i \in 1..n |-> diff2[i] * diff2[i]])
    IN  IF Len(series1) # Len(series2) \/ n < 2 THEN TRUE
        ELSE IF denom1 = 0 \/ denom2 = 0 THEN TRUE
        ELSE IF numerator <= 0 THEN TRUE
        ELSE LessFraction(100 * numerator, CORRELATION_THRESHOLD * denom1,
                          CORRELATION_THRESHOLD * denom2, 100 * numerator)

closes(a) == [i \in 1..Len(a) |-> a[i].close]

\* Math.abs(move1 - move2) >= MIN_DIVERGENCE_PERCENT for the moves
\* (latest - previous) / previous * 100 of the two assets
divergentMoves(latest1, prev1, latest2, prev2) ==
    Abs((latest1 - prev1) * prev2 - (latest2 - prev2) * prev1) * 1000
        >= MIN_DIVERGENCE_PERCENT * prev1 * prev2

\* the swings of the two assets diverge: a higher high against a lower
\* high (rising), or a lower low against a higher low
divergentSwings(swings1, swings2, rising) ==
    LET latest1 == swings1[Len(swings1)].price
        prev1 == swings1[Len(swings1) - 1].price
        latest2 == swings2[Len(swings2)].price
        prev2 == swings2[Len(swings2) - 1].price
    IN  /\ Len(swings1) >= 2
        /\ Len(swings2) >= 2
        /\ IF rising THEN latest1 > prev1 /\ latest2 < prev2
           ELSE latest1 < prev1 /\ latest2 > prev2
        /\ divergentMoves(latest1, prev1, latest2, prev2)

\* the divergence of a direction, with the timestamp of the latest swing of
\* the first asset
divergenceOf(recent1, swings1, swings2, rising) ==
    IF divergentSwings(swings1, swings2, rising)
    THEN << [ direction |-> IF rising THEN "BEARISH" ELSE "BULLISH",
              timestamp |-> At(recent1, swings1[Len(swings1)].index).timestamp ] >>
    ELSE <<>>

\* the bearish divergence, then the bullish one
divergencesOf(recent1, recent2) ==
    divergenceOf(recent1, findSwingHighs(recent1, 5, TRUE), findSwingHighs(recent2, 5, TRUE), TRUE)
        \o divergenceOf(recent1, findSwingLows(recent1, 5, TRUE),
                        findSwingLows(recent2, 5, TRUE), FALSE)

analysisOf(divergences) == [valid |-> divergences # <<>>, divergences |-> divergences]

\* SMTDivergence.detectDivergence
detectDivergence(btcCandles, ethCandles) ==
    IF correlationTooLow(closes(SliceLast(btcCandles, 50)), closes(SliceLast(ethCandles, 50)))
    THEN [valid |-> FALSE, divergences |-> <<>>]
    ELSE analysisOf(divergencesOf(SliceLast(btcCandles, DIVERGENCE_LOOKBACK * 2),
                                  SliceLast(ethCandles, DIVERGENCE_LOOKBACK * 2)))

\* the divergence is confirmed if one of the expected direction is not
\* older than the lookback
confirmationOf(btcCandles, valid, matching) ==
    LET divergenceIndex ==
            CHOOSE i \in 0..(Len(btcCandles) - 1) :
                /\ At(btcCandles, i).timestamp = matching[1].timestamp
                /\ \A j \in 0..(i - 1) : At(btcCandles, j).timestamp # matching[1].timestamp
    IN  [ confirmed |-> /\ valid
                        /\ matching # <<>>
                        /\ ~(Len(btcCandles) - 1 - divergenceIndex > DIVERGENCE_LOOKBACK) ]

matchingDivergences(btcCandles, analysis, expectedDirection) ==
    confirmationOf(btcCandles, analysis.valid,
                   SelectSeq(analysis.divergences, LAMBDA d : d.direction = expectedDirection))

\* SMTDivergence.checkSMTConfirmation
checkSMTConfirmation(btcCandles, ethCandles, expectedDirection) ==
    matchingDivergences(btcCandles, detectDivergence(btcCandles, ethCandles), expectedDirection)

-----------------------------------------------------------------------------
(***************************************************************************)
(* Part III : Backtester.simulateDay.  Timestamps are minutes; candles     *)
(* carry a timestamp next to open, high, low and close.  The confluence    *)
(* is kept in tenths.                                                      *)
(***************************************************************************)


\* new Date(timestamp).getUTCHours()
getUTCHours(timestamp) == (timestamp \div 60) % 24

\* new Date(timestamp).toISOString().split('T')[0], as the number of the day
utcDate(timestamp) == timestamp \div 1440

\* (hour >= 7 && hour <= 10) || (hour >= 13 && hour < decisionHour)
inKillzoneHours(c, hour) ==
    LET h == getUTCHours(c.timestamp)
    IN  (h >= 7 /\ h <= 10) \/ (h >= 13 /\ h < hour)

\* c.timestamp <= decisionTimestamp
isAvailable(c, decisionTimestamp) == c.timestamp <= decisionTimestamp

\* STEP 4: the 4h candles closed at the decision, the 1d candles of earlier days
filterHTF(htf, decisionTime) ==
    [tf \in {"4h", "1d"} |->
        IF tf = "4h"
        THEN SliceLast(SelectSeq(htf["4h"], LAMBDA c : c.timestamp + 240 <= decisionTime), 100)
        ELSE SliceLast(SelectSeq(htf["1d"],
                 LAMBDA c : utcDate(c.timestamp) < utcDate(decisionTime)), 60)]

NotTraded(reason) ==
    [ ran |-> TRUE, traded |-> FALSE, prediction |-> "null", reason |-> reason, confluence |-> 0,
      entryPrice |-> 0, isWin |-> FALSE ]

\* STEP 6 to STEP 11 on the results of the analyses: the gates and the
\* confluence
gatesAndConfluence(cfg, bt, htfBias, expectedDirection, swept, fvgValid, mmxmTradeable, hasSMT) ==
    LET sweepRequired == IF bt = "runner" THEN cfg.SWEEP_REQUIRED ELSE cfg.SWEEP_REQUIRED_STRICT
        confluence ==
            (IF htfBias.aligned /\ htfBias.overallBias # "NEUTRAL" THEN 20
             ELSE IF expectedDirection # "NEUTRAL" THEN 10 ELSE 0)
            + (IF swept THEN 20 ELSE 0)
            + (IF fvgValid THEN 15 ELSE 0)
            + (IF mmxmTradeable THEN 20 ELSE 0)
            + (IF hasSMT THEN 15 ELSE 0)
    IN  IF sweepRequired /\ ~swept THEN NotTraded("No liquidity sweep")
        ELSE IF bt = "runner" /\ cfg.MMXM_ONLY /\ ~mmxmTradeable
        THEN NotTraded("No MMXM setup")
        ELSE IF bt = "runner" /\ ~cfg.MMXM_ONLY /\ ~fvgValid /\ ~mmxmTradeable
        THEN NotTraded("No valid entry model")
        ELSE IF bt = "part_005" /\ FVG_ONLY /\ ~fvgValid
        THEN NotTraded("No FVG entry")
        ELSE IF bt = "part_005" /\ ~FVG_ONLY /\ ~fvgValid /\ ~mmxmTradeable
        THEN NotTraded("No valid entry model")
        ELSE IF cfg.SMT_REQUIRED /\ ~hasSMT THEN NotTraded("No SMT divergence")
        ELSE IF confluence < cfg.MIN_SCORE_TO_TRADE THEN NotTraded("Low confluence")
        ELSE [ ran |-> TRUE, traded |-> TRUE, prediction |-> expectedDirection,
               reason |-> "none", confluence |-> confluence,
               entryPrice |-> 0, isWin |-> FALSE ]

\* STEP 9: SMT is checked only if the reference asset has a candle for each
\* killzone candle
hasSMTConfirmation(killzoneCandles, smtKillzone, expectedDirection) ==
    /\ Len(smtKillzone) = Len(killzoneCandles)
    /\ checkSMTConfirmation(killzoneCandles, smtKillzone, expectedDirection).confirmed

\* the killzone candles among the candles available at the decision
killzoneOf(q, decisionTimestamp, hour) ==
    SelectSeq(q, LAMBDA c : isAvailable(c, decisionTimestamp) /\ inKillzoneHours(c, hour))

\* STEP 6 to STEP 11, for the direction the bias step settled on
stepsAfterBias(cfg, bt, killzoneCandles, smtDayCandlesArg, decisionTimestamp, hour, htfBias, expectedDirection) ==
    gatesAndConfluence(cfg, bt, htfBias, expectedDirection,
        hasRecentLiquiditySweep(killzoneCandles, expectedDirection).swept,
        isAtFVGEntry(killzoneCandles, expectedDirection).valid,
        analyzeMMXMCycle(killzoneCandles, expectedDirection).tradeable,
        hasSMTConfirmation(killzoneCandles,
                           killzoneOf(smtDayCandlesArg, decisionTimestamp, hour),
                           expectedDirection))

\* STEP 5, for the HTF bias and the bias of the killzone candles
biasGate(cfg, bt, killzoneCandles, smtDayCandlesArg, decisionTimestamp, hour, htfBias, ltfBias) ==
    IF Len(killzoneCandles) < 15 THEN NotTraded("Insufficient killzone data before decision")
    ELSE IF htfBias.overallBias = "NEUTRAL" /\ cfg.ALLOW_NEUTRAL_BIAS
    THEN IF ltfBias.bias # "NEUTRAL"
         THEN stepsAfterBias(cfg, bt, killzoneCandles, smtDayCandlesArg, decisionTimestamp, hour,
                             htfBias, ltfBias.bias)
         ELSE NotTraded("No HTF or LTF alignment")
    ELSE IF ~htfBias.aligned /\ ~cfg.ALLOW_NEUTRAL_BIAS THEN NotTraded("No HTF alignment")
    ELSE stepsAfterBias(cfg, bt, killzoneCandles, smtDayCandlesArg, decisionTimestamp, hour,
                        htfBias, htfBias.overallBias)

\* STEP 2 to STEP 4, for the decision candle found
stepsAfterDecisionPoint(cfg, bt, dayCandlesArg, htf, smtDayCandlesArg, hour, decisionTimestamp) ==
    biasGate(cfg, bt, killzoneOf(dayCandlesArg, decisionTimestamp, hour), smtDayCandlesArg,
             decisionTimestamp, hour,
             getHTFBiasAlignmentOf(filterHTF(htf, decisionTimestamp)),
             determineBias(killzoneOf(dayCandlesArg, decisionTimestamp, hour)))

\* the candle the decision is made at: availableCandles[length - 1]
decisionCandleOf(dayCandlesArg, decisionTimestamp) ==
    LET availableCandles == SelectSeq(dayCandlesArg, LAMBDA c : isAvailable(c, decisionTimestamp))
    IN  availableCandles[Len(availableCandles)]

\* the candles after the decision candle: dayCandles.findIndex(c =>
\* c.timestamp > decisionCandle.timestamp) is the position of the first
nextCandles(dayCandlesArg, decisionCandle) ==
    SelectSeq(dayCandlesArg, LAMBDA c : c.timestamp > decisionCandle.timestamp)

\* STEP 10: runner takes the close of the decision candle; part_005 takes
\* the open of the next candle and falls back to that close without one
entryPriceOf(bt, decisionCandle, next) ==
    IF bt = "runner" \/ next = <<>> THEN decisionCandle.close ELSE next[1].open

\* STEP 11: the day is won if it closes in the predicted direction
isWinOf(dayCandlesArg, expectedDirection) ==
    (IF dayCandlesArg[Len(dayCandlesArg)].close > dayCandlesArg[1].open
     THEN "BULLISH" ELSE "BEARISH") = expectedDirection

\* STEP 10 and STEP 11 for a day that passed the gates
entryAndOutcome(bt, dayCandlesArg, decisionCandle, decided) ==
    IF ~decided.traded THEN decided
    ELSE [decided EXCEPT
             !.entryPrice = entryPriceOf(bt, decisionCandle,
                                         nextCandles(dayCandlesArg, decisionCandle)),
             !.isWin = isWinOf(dayCandlesArg, decided.prediction)]

\* the day from its decision point on
simulateFrom(cfg, bt, dayCandlesArg, htf, smtDayCandlesArg, hour, decisionTimestamp) ==
    entryAndOutcome(bt, dayCandlesArg, decisionCandleOf(dayCandlesArg, decisionTimestamp),
        stepsAfterDecisionPoint(cfg, bt, dayCandlesArg, htf, smtDayCandlesArg, hour,
                                decisionTimestamp))

\* Backtester.simulateDay(dayCandles, htfCandles, smtDayCandles, decisionHour)
\* of the backtester bt; STEP 1 finds the first candle at or after the hour
simulateDay(cfg, bt, dayCandlesArg, htf, smtDayCandlesArg, hour) ==
    LET atOrAfter == SelectSeq(dayCandlesArg, LAMBDA c : getUTCHours(c.timestamp) >= hour)
    IN  IF atOrAfter = <<>> THEN NotTraded("No candle at decision hour")
        ELSE simulateFrom(cfg, bt, dayCandlesArg, htf, smtDayCandlesArg, hour,
                          atOrAfter[1].timestamp)

-----------------------------------------------------------------------------
(* The archive a day is replayed from, and the replay as a state machine:  *)
(* the 5m candles of the day are loaded slot by slot (a slot is five       *)
(* minutes), the day is simulated, and afterwards candles later than the   *)
(* cursor are altered in or removed from the archive.                      *)

\* the replayed day, counted from the start of the archive
ReplayDay == 20

\* options.decisionHour || CONFIG.BACKTEST.DECISION_HOUR_UTC || 15
DecisionHours == {9, 15}

\* the EvaluationCursor of the day: the decision hour
cursor(hour) == ReplayDay * 1440 + hour * 60

\* the archive of the day starts two hours before the cursor
dayStart(hour) == cursor(hour) - 120

slotTime(slot, hour) == dayStart(hour) + 5 * slot

slotOf(timestamp, hour) == (timestamp - dayStart(hour)) \div 5

candleAt(timestamp, shape) ==
    [ timestamp |-> timestamp, open |-> shape.open, high |-> shape.high,
      low |-> shape.low, close |-> shape.close ]

\* the shapes of the 5m candles
DayBase  == [open |-> 995, high |-> 1000, low |-> 990, close |-> 996]
DayUp    == [open |-> 998, high |-> 1012, low |-> 997, close |-> 1010]
DaySmall == [open |-> 998, high |-> 1012, low |-> 997, close |-> 1000]
DayHigh  == [open |-> 1010, high |-> 1015, low |-> 1008, close |-> 1012]
DayPlain == [open |-> 1018, high |-> 1022, low |-> 1015, close |-> 1019]
DayDip   == [open |-> 1018, high |-> 1019, low |-> 1010, close |-> 1017]

DayCandles(slot) ==
    CASE slot = 0 -> {DayBase}
      [] slot = 1 -> {DayUp, DaySmall}
      [] slot = 2 -> {DayHigh}
      [] slot = 16 -> {DayDip, DayPlain}
      [] OTHER -> {DayPlain}

\* the slots the exchange may have no candle for: the top of an hour
OutageSlots == {0, 12, 24}

\* 4h candles: a series of higher highs and higher lows, and a flat one
Htf4hHighs == <<10, 11, 12, 20, 13, 12, 13, 25, 14, 13, 12, 11, 10, 10, 10, 10, 10>>

Htf4hLows == <<8, 8, 8, 9, 7, 3, 7, 9, 7, 5, 7, 8, 8, 8, 8, 8, 8>>

\* the k-th 4h candle of the archive opens at 04:00 of the replayed day for
\* k = 14; the last one (k = 17) opens at 16:00
htf4hCandle(k, rising) ==
    [ timestamp |-> ReplayDay * 1440 + 240 * (k - 13), open |-> 990, close |-> 992,
      high |-> 1000 + (IF rising THEN Htf4hHighs[k] ELSE 10),
      low |-> 980 + (IF rising THEN Htf4hLows[k] ELSE 8) ]

\* the daily candles of the day before, the replayed day and the day after
htf1dCandle(k) ==
    [ timestamp |-> (ReplayDay + k - 2) * 1440, open |-> 990, close |-> 992,
      high |-> 1010, low |-> 988 ]

HTFArchives ==
    { [tf \in {"4h", "1d"} |->
          IF tf = "4h" THEN [k \in 1..Len(Htf4hHighs) |-> htf4hCandle(k, rising)]
          ELSE [k \in 1..3 |-> htf1dCandle(k)]] : rising \in BOOLEAN }

InitReplay ==
    /\ EngineIdle
    /\ candles = <<>>
    /\ lookback = 0
    /\ dayCandles = <<>>
    /\ htfCandles \in HTFArchives
    /\ smtDayCandles = <<>>
    /\ decisionHour \in DecisionHours
    /\ backtester \in {"runner", "part_005"}
    /\ outcome = NoOutcome
    /\ revisions = 0
    /\ config = CONFIG
    /\ ComponentsIdle

\* the slot after the last loaded candle
nextSlot ==
    IF dayCandles = <<>> THEN 0
    ELSE slotOf(dayCandles[Len(dayCandles)].timestamp, decisionHour) + 1

\* the slots before nextSlot without a candle
missingSlots == nextSlot - Len(dayCandles)

\* the archive receives the next 5m candle of the day, and the candle of the
\* reference asset if that asset is archived too
LoadCandle ==
    /\ ~outcome.ran
    /\ \E skip \in {0, 1}, withSmt \in BOOLEAN :
          /\ skip = 1 => (nextSlot \in OutageSlots /\ missingSlots < MaxMissing)
          /\ nextSlot + skip < MaxDayLen
          /\ \E shape \in DayCandles(nextSlot + skip) :
                LET c == candleAt(slotTime(nextSlot + skip, decisionHour), shape)
                IN  /\ dayCandles' = Append(dayCandles, c)
                    /\ IF withSmt
                       THEN /\ Len(smtDayCandles) = Len(dayCandles)
                            /\ smtDayCandles' = Append(smtDayCandles, c)
                       ELSE /\ smtDayCandles = <<>>
                            /\ smtDayCandles' = smtDayCandles
    /\ UNCHANGED <<htfCandles, decisionHour, backtester, outcome, revisions, config>>
    /\ UNCHANGED engineVars
    /\ UNCHANGED detectorVars
    /\ UNCHANGED componentVars

\* runBacktest calls simulateDay for the day
SimulateDay ==
    /\ ~outcome.ran
    /\ outcome' = simulateDay(config, backtester, dayCandles, htfCandles, smtDayCandles, decisionHour)
    /\ revisions' = 0
    /\ UNCHANGED <<dayCandles, htfCandles, smtDayCandles, decisionHour, backtester, config>>
    /\ UNCHANGED engineVars
    /\ UNCHANGED detectorVars
    /\ UNCHANGED componentVars

\* the series of the archive by name
SeriesNames == {"5m", "smt", "4h", "1d"}

seriesOf(name) ==
    CASE name = "5m" -> dayCandles
      [] name = "smt" -> smtDayCandles
      [] OTHER -> htfCandles[name]

\* the positions of the candles with a timestamp strictly after the cursor
laterCandles(q) == {i \in 1..Len(q) : q[i].timestamp > cursor(decisionHour)}

\* a candle with another high, low and close
alteredCandle(c) == [c EXCEPT !.high = 1100, !.low = 900, !.close = 910]

removeAt(q, i) == SubSeq(q, 1, i - 1) \o SubSeq(q, i + 1, Len(q))

\* the archive with series name replaced by q
Revise(name, q) ==
    /\ dayCandles' = IF name = "5m" THEN q ELSE dayCandles
    /\ smtDayCandles' = IF name = "smt" THEN q ELSE smtDayCandles
    /\ htfCandles' = IF name \in {"4h", "1d"} THEN [htfCandles EXCEPT ![name] = q]
                     ELSE htfCandles
    /\ revisions' = revisions + 1
    /\ UNCHANGED <<decisionHour, backtester, outcome, config>>
    /\ UNCHANGED engineVars
    /\ UNCHANGED detectorVars
    /\ UNCHANGED componentVars

\* a candle later than the cursor is altered
AlterLater ==
    /\ outcome.ran
    /\ revisions < MaxRevisions
    /\ \E name \in SeriesNames : \E i \in laterCandles(seriesOf(name)) :
          /\ seriesOf(name)[i] # alteredCandle(seriesOf(name)[i])
          /\ Revise(name, [seriesOf(name) EXCEPT ![i] = alteredCandle(@)])

\* a candle later than the cursor is removed
RemoveLater ==
    /\ outcome.ran
    /\ revisions < MaxRevisions
    /\ \E name \in SeriesNames : \E i \in laterCandles(seriesOf(name)) :
          Revise(name, removeAt(seriesOf(name), i))

NextReplay == LoadCandle \/ SimulateDay \/ AlterLater \/ RemoveLater

SpecReplay == InitReplay /\ [][NextReplay]_vars

\* the Decision of a replayed day: whether it is traded, and the direction
replayDecision(o) == <<o.traded, o.prediction>>

\* C1: the replay decision for a cursor is unchanged when a candle with a
\* timestamp strictly after the cursor is removed or altered: the decision
\* simulateDay returned before the archive was revised is the decision it
\* returns on the revised archive.
C1_NoLookahead ==
    outcome.ran =>
        replayDecision(simulateDay(config, backtester, dayCandles, htfCandles, smtDayCandles,
                                   decisionHour))
            = replayDecision(outcome)

\* the archive has a candle at the cursor
HasCursorCandle ==
    \E i \in 1..Len(dayCandles) : dayCandles[i].timestamp = cursor(decisionHour)

\* with a candle at the cursor the decision does not depend on later candles
NoLookaheadFromCursorCandle == HasCursorCandle => C1_NoLookahead

\* a traded day whose archive was revised after the cursor
TradedDayRevised == outcome.ran /\ outcome.traded /\ revisions > 0

-----------------------------------------------------------------------------
(* The entry price of a traded day                                          *)

\* the candle of the archive the decision was made at
decisionCandleOfDay ==
    decisionCandleOf(dayCandles,
        SelectSeq(dayCandles, LAMBDA c : getUTCHours(c.timestamp) >= decisionHour)[1].timestamp)

\* C11: for every traded replay day the simulated entry price is the open
\* of the first candle after the decision candle, and never the decision
\* candle's close (the archive is the one the day was simulated on).
C11_EntryAtNextOpen ==
    (outcome.traded /\ revisions = 0) =>
        /\ nextCandles(dayCandles, decisionCandleOfDay) # <<>>
        /\ outcome.entryPrice = nextCandles(dayCandles, decisionCandleOfDay)[1].open
        /\ outcome.entryPrice # decisionCandleOfDay.close

\* part_005 enters at the open of the next candle whenever the day has one
EntryAtNextOpenIfAny ==
    (outcome.traded /\ revisions = 0 /\ backtester = "part_005"
        /\ nextCandles(dayCandles, decisionCandleOfDay) # <<>>) =>
        outcome.entryPrice = nextCandles(dayCandles, decisionCandleOfDay)[1].open

-----------------------------------------------------------------------------
(* Backtester.runBacktest: the loop over the days (src/backtest/runner.js,  *)
(* part_005 and part_003 keep the same counters)                            *)

\* the results after a traded day
recordTrade_noReset(r, isWin) ==
    IF isWin
    THEN [r EXCEPT !.tradedDays = @ + 1, !.wins = @ + 1,
                   !.consecutiveWins = @ + 1, !.consecutiveLosses = 0,
                   !.maxConsecutiveWins = Max(@, r.consecutiveWins + 1),
                   !.trades = Append(@, isWin)]
    ELSE [r EXCEPT !.tradedDays = @ + 1, !.losses = @ + 1,
                   !.consecutiveLosses = @ + 1,
                   !.maxConsecutiveLosses = Max(@, r.consecutiveLosses + 1),
                   !.trades = Append(@, isWin)]

recordTrade(r, isWin) ==
    IF isWin
    THEN [r EXCEPT !.tradedDays = @ + 1, !.wins = @ + 1,
                   !.consecutiveWins = @ + 1, !.consecutiveLosses = 0,
                   !.maxConsecutiveWins = Max(@, r.consecutiveWins + 1),
                   !.trades = Append(@, isWin)]
    ELSE [r EXCEPT !.tradedDays = @ + 1, !.losses = @ + 1,
                   !.consecutiveLosses = @ + 1, !.consecutiveWins = 0,
                   !.maxConsecutiveLosses = Max(@, r.consecutiveLosses + 1),
                   !.trades = Append(@, isWin)]

\* what simulateDay may return for a day, as far as the loop reads it
DayResults ==
    { [traded |-> FALSE, isWin |-> FALSE, reason |-> "No HTF alignment"],
      [traded |-> FALSE, isWin |-> FALSE, reason |-> "No liquidity sweep"],
      [traded |-> TRUE, isWin |-> FALSE, reason |-> "none"],
      [traded |-> TRUE, isWin |-> TRUE, reason |-> "none"] }

\* results.skippedReasons[reason] = (results.skippedReasons[reason] || 0) + 1
countReason(skippedReasons, reason) ==
    IF reason \in DOMAIN skippedReasons
    THEN [skippedReasons EXCEPT ![reason] = @ + 1]
    ELSE (reason :> 1) @@ skippedReasons

\* variant: a day that is not traded is not counted in totalDays
recordDay_tradedOnly(r, result) ==
    IF result.traded THEN recordTrade([r EXCEPT !.totalDays = @ + 1], result.isWin)
    ELSE [r EXCEPT !.skippedReasons = countReason(@, result.reason)]

\* one iteration of the loop for a weekday
recordDay(r, result) ==
    IF result.traded THEN recordTrade([r EXCEPT !.totalDays = @ + 1], result.isWin)
    ELSE [r EXCEPT !.totalDays = @ + 1,
                   !.skippedReasons = countReason(@, result.reason)]

InitBacktest ==
    /\ EngineIdle
    /\ candles = <<>>
    /\ lookback = 0
    /\ ReplayIdle
    /\ ComponentsIdle

\* the loop skips a Saturday or Sunday
SkipWeekend ==
    /\ results.days < MaxReplayDays
    /\ results' = [results EXCEPT !.days = @ + 1]
    /\ UNCHANGED <<state, source, lastCheck>>
    /\ UNCHANGED engineVars
    /\ UNCHANGED detectorVars
    /\ UNCHANGED replayVars

\* the loop simulates a weekday and records its result
ReplayWeekday ==
    /\ results.days < MaxReplayDays
    /\ \E result \in DayResults :
          results' = [recordDay(results, result) EXCEPT !.days = @ + 1]
    /\ UNCHANGED <<state, source, lastCheck>>
    /\ UNCHANGED engineVars
    /\ UNCHANGED detectorVars
    /\ UNCHANGED replayVars

NextBacktest == SkipWeekend \/ ReplayWeekday

SpecBacktest == InitBacktest /\ [][NextBacktest]_vars

\* the naive scan: the length of the longest run of outcome w in q
LongestRun(q, w) ==
    CHOOSE k \in 0..Len(q) :
        /\ \E i \in 1..(Len(q) - k + 1) : \A j \in i..(i + k - 1) : q[j] = w
        /\ \A l \in (k + 1)..Len(q) :
              ~\E i \in 1..(Len(q) - l + 1) : \A j \in i..(i + l - 1) : q[j] = w

\* C12: after a replay over any sequence of traded-day outcomes, the
\* reported maxConsecutiveWins and maxConsecutiveLosses are the lengths of
\* the longest run of wins and of losses a naive scan of the outcomes finds.
C12_StreaksMatchScan ==
    /\ results.maxConsecutiveWins = LongestRun(results.trades, TRUE)
    /\ results.maxConsecutiveLosses = LongestRun(results.trades, FALSE)

\* a replay with a run of two wins, then losses, then a single win
C12_Witness ==
    /\ Len(results.trades) >= 5
    /\ results.maxConsecutiveWins = 2
    /\ results.maxConsecutiveLosses = 2
    /\ results.consecutiveWins = 1
    /\ results.skippedReasons # NoReasons

-----------------------------------------------------------------------------
(* The calendar gate of makeDecision                                        *)

isWeekend(d) == getUTCDay(d) = 0 \/ getUTCDay(d) = 6

\* C13: when the cursor (the time makeDecision is called at; no time has
\* passed since) falls on a Saturday or Sunday, the Decision is returned
\* with action NO_TRADE and the reason of the calendar gate as its only
\* reason, whatever the collaborators would answer.
C13_WeekendNoTrade ==
    (call.pc # "idle" /\ call.steady /\ isWeekend(clock.day)) =>
        /\ call.pc = "done"
        /\ call.action = "NO_TRADE"
        /\ call.failed = "calendar"
        /\ call.trace = <<"calendar">>
        /\ call.reasons = <<"SKIP">>

\* makeDecision was called on a Sunday, by an engine that had evaluated a
\* setup up to the daily limit on an earlier day
C13_Witness ==
    /\ call.pc = "done"
    /\ call.steady
    /\ getUTCDay(clock.day) = 0
    /\ call.reasons = <<"SKIP">>
    /\ lastTradeDate # 0

-----------------------------------------------------------------------------
(* Scenario C: a score equal to the minimum                                 *)

\* the call returned after computing a score equal to the minimum, for a
\* bias that is BULLISH on every timeframe, a sweep and a valid gap
ScenarioC ==
    /\ call.pc = "done"
    /\ {"data", "swept", "fvgValid"} \subseteq DOMAIN world
    /\ world["data"].bullish = MaxVotes
    /\ world["data"].bearish = 0
    /\ world["swept"]
    /\ world["fvgValid"]
    /\ Contains(call.trace, "confluence")
    /\ call.confluenceScore = MIN_SCORE_TO_TRADE

\* the statement without a condition on the trades of the day
C14_ScenarioC_AnyDay == ScenarioC => call.action = "LONG"

\* C14: if the bias is BULLISH on all timeframes, a sweep and an unfilled
\* gap are present, the weights of the present factors sum to exactly the
\* configured minimum, and the daily trade limit is not reached, then
\* Decision.action is LONG: a score equal to the minimum passes the
\* confluence gate and BULLISH maps to LONG.
C14_ScenarioC == (ScenarioC /\ ~call.limitReached) => call.action = "LONG"

\* the scenario ended in a LONG decision
C14_Witness == ScenarioC /\ ~call.limitReached /\ call.action = "LONG"

-----------------------------------------------------------------------------
(* The reasons of a decision                                                *)

\* the reasons makeDecision pushes that state the outcome of a gate
\* (tradeDecision.js 101-271); the calendar, news, session window, volatility
\* and sweep gates push a reason only on the return that follows their
\* failure
OutcomeReasons(gate) ==
    CASE gate = "calendar" -> {"SKIP"}
      [] gate = "news" -> {"NEWS_BLACKOUT"}
      [] gate = "session" -> {"OUTSIDE_KILLZONE"}
      [] gate = "volatility" -> {"LOW_VOLATILITY", "HIGH_VOLATILITY"}
      [] gate = "bias" -> {"NO_HTF_ALIGNMENT", "HTF_BIAS"}
      [] gate = "sweep" -> {"NO_LIQUIDITY_SWEEP"}
      [] gate = "entry" -> {"NO_VALID_ENTRY_MODEL", "MODEL"}
      [] gate = "confluence" -> {"LOW_CONFLUENCE", "CONFLUENCE"}
      [] OTHER -> {}

OutcomeRecorded(c, gate) == \E i \in 1..Len(c.reasons) : c.reasons[i] \in OutcomeReasons(gate)

\* C15: the reasons of every Decision enumerate the outcome of every gate
\* evaluated in producing it; in particular the reasons of a LONG or SHORT
\* Decision record the outcome of each of the eight gates.
C15_ReasonsEnumerateGates ==
    (call.pc = "done" /\ ~call.error) =>
        /\ \A i \in 1..Len(call.trace) : IsGate(call.trace[i]) => OutcomeRecorded(call, call.trace[i])
        /\ Traded(call) => \A i \in 1..Len(Gates) : OutcomeRecorded(call, Gates[i])

\* what the reasons do record: the outcome of the gate that failed, and for
\* a LONG or SHORT decision the signal, the entry pattern, the score, the
\* win rate and the bias
ReasonsStateLastOutcome ==
    (call.pc = "done" /\ ~call.error) =>
        /\ (call.failed # "none" /\ IsGate(call.failed)) => OutcomeRecorded(call, call.failed)
        /\ Traded(call) =>
              SelectSeq(call.reasons, LAMBDA r : r # "A_PLUS_SETUP") =
                  <<"TRADE_SIGNAL", "MODEL", "CONFLUENCE", "WIN_RATE", "HTF_BIAS">>

-----------------------------------------------------------------------------
(* The confirmation of a sweep                                              *)

\* the candle at (0-based) index i of the series closes on the rejecting
\* side of the pool: below its price for a buy-side pool, above for a
\* sell-side pool
Rejects(a, i, pool, buySide) ==
    IF buySide THEN At(a, i).close * pool.touches < pool.sum
    ELSE At(a, i).close * pool.touches > pool.sum

\* the candle at index i pierces the pool price
Pierces(a, i, pool, buySide) ==
    IF buySide THEN At(a, i).high * pool.touches > pool.sum
    ELSE At(a, i).low * pool.touches < pool.sum

\* a reported sweep was pierced, rejected and confirmed by the candles
\* i+1 .. i+confirmationCandles, all of them at or before index `last`
ConfirmedUpTo(a, s, last) ==
    LET buySide == s.type = "BUY_SIDE_SWEEP"
    IN  /\ Pierces(a, s.index, s.liquidityPool, buySide)
        /\ Rejects(a, s.index, s.liquidityPool, buySide)
        /\ s.index + SWEEP_CONFIRMATION_CANDLES <= last
        /\ \A j \in 1..SWEEP_CONFIRMATION_CANDLES :
              Rejects(a, s.index + j, s.liquidityPool, buySide)

SweepsConfirmedUpTo(a, sweeps, last) == \A k \in 1..Len(sweeps) : ConfirmedUpTo(a, sweeps[k], last)

\* C16: a sweep of a pool is reported only if a candle pierces the pool
\* price, closes back on the rejecting side, and every one of the next
\* confirmationCandles candles is a completed candle (one before the last,
\* in-progress candle of the series) and closes on the rejecting side.
C16_ConfirmedByCompletedCandles ==
    SweepsConfirmedUpTo(candles, detectLiquiditySweep(candles, TRUE), Len(candles) - 2)

\* what the detector does ensure: the confirming candles are in the series,
\* the last one possibly being its last candle
ConfirmedByCandlesOfSeries ==
    SweepsConfirmedUpTo(candles, detectLiquiditySweep(candles, TRUE), Len(candles) - 1)

\* a sweep is reported
SweepReported == detectLiquiditySweep(candles, TRUE) # <<>>

-----------------------------------------------------------------------------
(* The external data sources and their backtest protection                  *)
(* (src/src/data/newsSentiment.js, src/src/testExternalData.js,             *)
(* src/unnamed/part_006)                                                    *)
(*                                                                          *)
(* One instance of NewsSentiment, ETFFlows or EconomicCalendar is           *)
(* constructed with some options and then called up to MaxCalls times, one  *)
(* call at a time. A call runs to its first await in one step: the          *)
(* protection check, the cache read and the start of the fetch; the fetch   *)
(* then settles in a second step. A cached entry goes stale when the expiry *)
(* time has passed.                                                         *)

SourceKinds == {"NewsSentiment", "ETFFlows", "EconomicCalendar"}

\* the values a caller passes or omits for an option
OptionValues == {"undefined", "false", "true"}

SourceOptions == [backtestMode : OptionValues, allowInBacktest : OptionValues]

\* variant: the override is ignored
checkBacktestSafety_noOverride(s) == s.isBacktestMode

\* _checkBacktestSafety throws: this.isBacktestMode && !this.allowInBacktest
checkBacktestSafety(s) == s.isBacktestMode /\ ~s.allowInBacktest

\* getFromCache: the entry is returned if it is younger than cacheExpiry
getFromCache(s) == IF s.cache = "fresh" THEN "cached" ELSE "null"

\* getAggregateSentiment / getETFFlows / getUpcomingEvents up to the first
\* await
callSource(s) ==
    LET c == [s EXCEPT !.calls = @ + 1]
        r == [c EXCEPT !.cacheReads = @ + 1]
    IN  IF checkBacktestSafety(s)
        THEN [c EXCEPT !.pc = "thrown", !.returned = "LOOKAHEAD_BIAS_BLOCKED"]
        ELSE IF getFromCache(s) # "null"
        THEN [r EXCEPT !.pc = "returned", !.returned = "cached"]
        ELSE [r EXCEPT !.pc = "fetching", !.returned = "none", !.fetches = @ + 1]

\* the rest of the method once the fetch has settled: NewsSentiment awaits
\* Promise.allSettled and caches the aggregate whatever the fetches did;
\* ETFFlows and EconomicCalendar cache and return the fetched data, or
\* return mock data from the catch block
fetchSettled(s, fulfilled) ==
    IF s.kind = "NewsSentiment" \/ fulfilled
    THEN [s EXCEPT !.pc = "returned", !.returned = "result", !.cache = "fresh"]
    ELSE [s EXCEPT !.pc = "returned", !.returned = "mock"]

InitSource ==
    /\ EngineIdle
    /\ candles = <<>>
    /\ lookback = 0
    /\ ReplayIdle
    /\ results = NewResults
    /\ state = NewState
    /\ \E kind \in SourceKinds, options \in SourceOptions : source = NewSource(kind, options)
    /\ lastCheck = "none"

CallSource ==
    /\ source.pc \in {"idle", "returned", "thrown"}
    /\ source.calls < MaxCalls
    /\ source' = callSource(source)
    /\ UNCHANGED <<results, state, lastCheck>>
    /\ UNCHANGED engineVars
    /\ UNCHANGED detectorVars
    /\ UNCHANGED replayVars

FetchSettles ==
    /\ source.pc = "fetching"
    /\ \E fulfilled \in BOOLEAN : source' = fetchSettled(source, fulfilled)
    /\ UNCHANGED <<results, state, lastCheck>>
    /\ UNCHANGED engineVars
    /\ UNCHANGED detectorVars
    /\ UNCHANGED replayVars

\* Date.now() - cached.timestamp reaches cacheExpiry
CacheExpires ==
    /\ source.cache = "fresh"
    /\ source.pc # "fetching"
    /\ source' = [source EXCEPT !.cache = "stale"]
    /\ UNCHANGED <<results, state, lastCheck>>
    /\ UNCHANGED engineVars
    /\ UNCHANGED detectorVars
    /\ UNCHANGED replayVars

NextSource == CallSource \/ FetchSettles \/ CacheExpires

SpecSource == InitSource /\ [][NextSource]_vars

\* the instance was constructed with backtestMode true and without
\* allowInBacktest true
ConstructedForBacktest ==
    source.options.backtestMode = "true" /\ source.options.allowInBacktest # "true"

\* C17: a call of getAggregateSentiment, getETFFlows or getUpcomingEvents
\* throws an error with code LOOKAHEAD_BIAS_BLOCKED exactly when the
\* instance was constructed with backtestMode true and without
\* allowInBacktest true; the error is then raised before the cache is read
\* or anything is fetched, and otherwise the call fetches or returns a
\* result (cached, fetched or mock) and never throws.
C17_BlockedExactlyInBacktest ==
    source.calls > 0 =>
        IF ConstructedForBacktest
        THEN /\ source.pc = "thrown"
             /\ source.returned = "LOOKAHEAD_BIAS_BLOCKED"
             /\ source.cacheReads = 0
             /\ source.fetches = 0
             /\ source.cache = "empty"
        ELSE /\ source.pc \in {"fetching", "returned"}
             /\ source.pc = "returned" => source.returned \in {"cached", "result", "mock"}
             /\ source.cacheReads = source.calls

\* an ETFFlows instance constructed with backtestMode true and
\* allowInBacktest false was called twice and threw
C17_Witness ==
    /\ source.kind = "ETFFlows" /\ ConstructedForBacktest
    /\ source.options.allowInBacktest = "false"
    /\ source.calls = 2 /\ source.pc = "thrown"

\* an instance in backtest mode with the override returned a cached result
C17_OverrideReturns ==
    /\ source.options = [backtestMode |-> "true", allowInBacktest |-> "true"]
    /\ source.pc = "returned" /\ source.returned = "cached"

-----------------------------------------------------------------------------
(* The challenge state of BotCasino13 (src/unnamed/part_002)                *)

\* CONFIG.CHALLENGE.TARGET_CAPITAL
TARGET_CAPITAL == 98304

\* the literal 13 of recordResult (CONFIG.CHALLENGE.REQUIRED_WINS)
REQUIRED_WINS == 13

\* variant: a loss resets the streak and keeps the capital
recordResult_keepCapital(st, isWin) ==
    LET after == IF isWin
                 THEN [st EXCEPT !.currentCapital = @ * 2,
                                 !.consecutiveWins = @ + 1,
                                 !.challengeActive = IF st.consecutiveWins + 1 >= REQUIRED_WINS
                                                     THEN FALSE ELSE @]
                 ELSE [st EXCEPT !.consecutiveWins = 0]
    IN  [after EXCEPT !.totalTrades = @ + 1,
                      !.tradeHistory = Append(@, [isWin |-> isWin,
                                                  capitalAfter |-> after.currentCapital,
                                                  consecutiveWins |-> after.consecutiveWins])]

\* BotCasino13.recordResult
recordResult(st, isWin) ==
    LET after == IF isWin
                 THEN [st EXCEPT !.currentCapital = @ * 2,
                                 !.consecutiveWins = @ + 1,
                                 !.challengeActive = IF st.consecutiveWins + 1 >= REQUIRED_WINS
                                                     THEN FALSE ELSE @]
                 ELSE [st EXCEPT !.currentCapital = STARTING_CAPITAL,
                                 !.consecutiveWins = 0]
    IN  [after EXCEPT !.totalTrades = @ + 1,
                      !.tradeHistory = Append(@, [isWin |-> isWin,
                                                  capitalAfter |-> after.currentCapital,
                                                  consecutiveWins |-> after.consecutiveWins])]

InitBot ==
    /\ EngineIdle
    /\ candles = <<>>
    /\ lookback = 0
    /\ ReplayIdle
    /\ ComponentsIdle

\* a trade result is recorded
RecordResult ==
    /\ state.totalTrades < MaxRecords
    /\ \E isWin \in BOOLEAN : state' = recordResult(state, isWin)
    /\ UNCHANGED <<results, source, lastCheck>>
    /\ UNCHANGED engineVars
    /\ UNCHANGED detectorVars
    /\ UNCHANGED replayVars

NextBot == RecordResult

SpecBot == InitBot /\ [][NextBot]_vars

\* the wins at the end of the recorded history
RECURSIVE TrailingWins(_)
TrailingWins(h) ==
    IF h = <<>> \/ ~h[Len(h)].isWin THEN 0
    ELSE 1 + TrailingWins(SubSeq(h, 1, Len(h) - 1))

\* C18: after any sequence of recorded results currentCapital equals
\* STARTING_CAPITAL x 2^consecutiveWins, consecutiveWins being the number of
\* wins since the last loss: each win doubles the capital and adds one to the
\* streak, a loss resets both, and 13 consecutive wins from 12 give 98,304.
C18_CapitalIsDoubledStreak ==
    /\ state.consecutiveWins = TrailingWins(state.tradeHistory)
    /\ state.currentCapital = STARTING_CAPITAL * 2 ^ state.consecutiveWins
    /\ state.consecutiveWins = REQUIRED_WINS => state.currentCapital = TARGET_CAPITAL
    /\ state.tradeHistory # <<>> =>
          state.tradeHistory[Len(state.tradeHistory)].capitalAfter = state.currentCapital

\* thirteen wins in a row after a loss
C18_Witness ==
    /\ state.consecutiveWins = REQUIRED_WINS
    /\ state.totalTrades = REQUIRED_WINS + 1
    /\ state.currentCapital = TARGET_CAPITAL
    /\ ~state.challengeActive

-----------------------------------------------------------------------------
(* The prediction of a traded replay day, under several configurations      *)
(*                                                                          *)
(* simulateDay is called once for a whole archived day, with the settings   *)
(* of the configuration varied and with higher-timeframe archives that      *)
(* disagree: a rising 4h series next to a falling 1d series.                *)

\* the daily candles from 14 days before the replayed day on: a series of
\* lower highs and lower lows, the 4h series turned upside down
htf1dFalling(k) ==
    [ timestamp |-> (ReplayDay + k - 15) * 1440, open |-> 990, close |-> 992,
      high |-> 1020 - Htf4hLows[k], low |-> 1000 - Htf4hHighs[k] ]

\* a rising 4h series and a falling 1d series
MixedArchive ==
    [tf \in {"4h", "1d"} |->
        IF tf = "4h" THEN [k \in 1..Len(Htf4hHighs) |-> htf4hCandle(k, TRUE)]
        ELSE [k \in 1..Len(Htf4hHighs) |-> htf1dFalling(k)]]

\* a 5m candle turned upside down
Mirror(shape) ==
    [ open |-> 2010 - shape.open, high |-> 2010 - shape.low,
      low |-> 2010 - shape.high, close |-> 2010 - shape.close ]

RisingShape(slot) ==
    CASE slot = 0 -> DayBase
      [] slot = 1 -> DayUp
      [] slot = 2 -> DayHigh
      [] OTHER -> DayPlain

DayTrends == {"rising", "falling", "plain"}

\* a day that leaves a bullish gap behind, one that leaves a bearish gap
\* behind, and one without a gap
ArchivedDay(trend, hour) ==
    [k \in 1..MaxDayLen |->
        candleAt(slotTime(k - 1, hour),
                 CASE trend = "rising" -> RisingShape(k - 1)
                   [] trend = "falling" -> Mirror(RisingShape(k - 1))
                   [] OTHER -> DayPlain)]

\* the configuration as it is; with the neutral-bias fallback enabled; with
\* a minimum score of 1.5; with a minimum score of 1.5 and sweeps not required
Configurations ==
    { CONFIG,
      [CONFIG EXCEPT !.ALLOW_NEUTRAL_BIAS = TRUE],
      [CONFIG EXCEPT !.MIN_SCORE_TO_TRADE = 15],
      [CONFIG EXCEPT !.SWEEP_REQUIRED = FALSE, !.MIN_SCORE_TO_TRADE = 15] }

InitConfigured ==
    /\ EngineIdle
    /\ candles = <<>>
    /\ lookback = 0
    /\ dayCandles = <<>>
    /\ htfCandles \in HTFArchives \cup {MixedArchive}
    /\ smtDayCandles = <<>>
    /\ decisionHour \in DecisionHours
    /\ backtester \in {"runner", "part_005"}
    /\ outcome = NoOutcome
    /\ revisions = 0
    /\ config \in Configurations
    /\ ComponentsIdle

\* runBacktest calls simulateDay for an archived day
SimulateArchivedDay ==
    /\ ~outcome.ran
    /\ \E trend \in DayTrends :
          /\ dayCandles' = ArchivedDay(trend, decisionHour)
          /\ outcome' = simulateDay(config, backtester, ArchivedDay(trend, decisionHour),
                                    htfCandles, smtDayCandles, decisionHour)
    /\ UNCHANGED <<htfCandles, smtDayCandles, decisionHour, backtester, revisions, config>>
    /\ UNCHANGED engineVars
    /\ UNCHANGED detectorVars
    /\ UNCHANGED componentVars

NextConfigured == SimulateArchivedDay

SpecConfigured == InitConfigured /\ [][NextConfigured]_vars

\* C19: a replay day is reported as traded only with a prediction of
\* BULLISH or BEARISH, for every configuration: a day whose combined
\* multi-timeframe bias is NEUTRAL and for which no fallback direction was
\* adopted is never traded with prediction NEUTRAL.
C19_TradedOnlyWithDirection ==
    (outcome.ran /\ outcome.traded) => outcome.prediction \in {"BULLISH", "BEARISH"}

-----------------------------------------------------------------------------
(* The phases of the MMXM cycle (src/src/ict/mmxm.js) and the break of      *)
(* structure (src/unnamed/part_009)                                         *)

MaxCycleLen == 14

\* the first candle of the scan that broke the level: the loop leaves at it
firstBreak(breaks) == CHOOSE i \in breaks : \A j \in breaks : i <= j

\* the signals of detectBOS for the swings found: the first candle of
\* candles.slice(-11, -1) after the last swing high that closes above it,
\* and the first one after the last swing low that closes below it
bosOf(a, swings) ==
    LET recent == Max(0, Len(a) - 11)..(Len(a) - 2)
        highs == swings.swingHighs
        lows == swings.swingLows
        above == IF highs = <<>> THEN {}
                 ELSE {i \in recent : /\ At(a, i).close > highs[Len(highs)].price
                                      /\ i > highs[Len(highs)].index}
        below == IF lows = <<>> THEN {}
                 ELSE {i \in recent : /\ At(a, i).close < lows[Len(lows)].price
                                      /\ i > lows[Len(lows)].index}
        bull == IF Len(highs) >= 2 /\ above # {}
                THEN <<[type |-> "BULLISH_BOS", level |-> highs[Len(highs)].price,
                        breakCandle |-> firstBreak(above)]>>
                ELSE <<>>
        bear == IF Len(lows) >= 2 /\ below # {}
                THEN <<[type |-> "BEARISH_BOS", level |-> lows[Len(lows)].price,
                        breakCandle |-> firstBreak(below)]>>
                ELSE <<>>
    IN  bull \o bear

\* MarketStructure.detectBOS
detectBOS(a) == bosOf(a, identifySwings(a, SWING_LOOKBACK, TRUE))

\* MMXM.detectAccumulation: the recent ranges are below 0.7 of the average
\* range and equal highs or lows are forming
detectAccumulation(a) ==
    LET recentCandles == SliceLast(a, 30)
        ranges == [k \in 1..Len(recentCandles) |-> recentCandles[k].high - recentCandles[k].low]
        rangeCompression == /\ Len(ranges) > 0
                            /\ SumSeq(SliceLast(ranges, 10)) * Len(ranges) < 7 * SumSeq(ranges)
        hasLiquidityBuildup == \/ findEqualHighs(recentCandles, TRUE) # <<>>
                               \/ findEqualLows(recentCandles, TRUE) # <<>>
    IN  [detected |-> rangeCompression /\ hasLiquidityBuildup]

\* movePercent >= CONFIG.ICT.FVG.DISPLACEMENT_MIN_SIZE && isDirectional
isDisplacementCandle(c, expectedDirection) ==
    /\ Abs(c.close - c.open) * 10000 >= DISPLACEMENT_MIN_SIZE * c.open
    /\ IF expectedDirection = "BULLISH" THEN c.close > c.open ELSE c.close < c.open

\* the result of detectDistribution for the gaps of the recent candles and
\* the signals of detectBOS
distributionOf(recentCandles, fvgs, bos, expectedDirection) ==
    LET relevantFvgs == IF expectedDirection = "BULLISH" THEN fvgs.bullish ELSE fvgs.bearish
        relevantBos == SelectSeq(bos, LAMBDA b :
                           \/ expectedDirection = "BULLISH" /\ b.type = "BULLISH_BOS"
                           \/ expectedDirection = "BEARISH" /\ b.type = "BEARISH_BOS")
        displacementCandles ==
            Cardinality({k \in 1..Len(recentCandles) :
                            isDisplacementCandle(recentCandles[k], expectedDirection)})
    IN  [ detected |-> relevantFvgs # <<>> /\ displacementCandles > 0,
          fvgs |-> relevantFvgs, bosSignals |-> relevantBos,
          displacementCandles |-> displacementCandles, direction |-> expectedDirection ]

\* MMXM.detectDistribution
detectDistribution(a, expectedDirection) ==
    distributionOf(SliceLast(a, 15), detectFVGs(SliceLast(a, 15), TRUE), detectBOS(a),
                   expectedDirection)

NoDistribution ==
    [ detected |-> FALSE, fvgs |-> <<>>, bosSignals |-> <<>>, displacementCandles |-> 0,
      direction |-> "null" ]

\* the current phase for the three phases detected
phasesOf(accumulation, manipulation, distribution) ==
    [ currentPhase |-> IF distribution.detected THEN "DISTRIBUTION"
                       ELSE IF manipulation.detected THEN "MANIPULATION_COMPLETE"
                       ELSE IF accumulation.detected THEN "ACCUMULATION"
                       ELSE "UNKNOWN",
      accumulation |-> accumulation, manipulation |-> manipulation,
      distribution |-> distribution ]

\* the distribution is looked for only after a detected manipulation, in
\* the direction the manipulation implies
distributionAfter(a, manipulation) ==
    IF manipulation.detected
    THEN detectDistribution(a, manipulation.expectedDistributionDirection)
    ELSE NoDistribution

\* MMXM.analyzeMMXMCycle: currentPhase and phases
analyzeMMXMPhases(a) ==
    phasesOf(detectAccumulation(Slice(a, 0, Len(a) - 20)), detectManipulation(a),
             distributionAfter(a, detectManipulation(a)))

\* a candle after a rally: it opens where the rally closed
CycleHigh == [open |-> 1008, high |-> 1014, low |-> 1005, close |-> 1010]

\* the candles the cycle classifier is exercised with: those of the sweep
\* detector, and a rally three candles before the end of the longest series
CycleCandles(position) ==
    SweepCandles(position) \cup (IF position = MaxCycleLen - 2 THEN {CycleHigh} ELSE {})

InitCycle ==
    /\ EngineIdle
    /\ ReplayIdle
    /\ ComponentsIdle
    /\ candles = <<>>
    /\ lookback = 0

\* the series grows by one candle: the cursor moves on
AppendCycleCandle ==
    /\ Len(candles) < MaxCycleLen
    /\ \E c \in CycleCandles(Len(candles) + 1) : candles' = Append(candles, c)
    /\ UNCHANGED lookback
    /\ UNCHANGED engineVars
    /\ UNCHANGED replayVars
    /\ UNCHANGED componentVars

NextCycle == AppendCycleCandle

SpecCycle == InitCycle /\ [][NextCycle]_vars

\* a gap of the distribution that no completed candle after it has filled
HasUnfilledGap(a, distribution) ==
    \E k \in 1..Len(distribution.fvgs) : ~isFilled(SliceLast(a, 15), distribution.fvgs[k])

\* C20: the cycle classifier reports phase DISTRIBUTION only if, in the
\* direction implied by the manipulation sweep, there are at least one
\* unfilled gap, at least one displacement candle and a break of structure.
C20_DistributionNeedsBOS ==
    analyzeMMXMPhases(candles).currentPhase = "DISTRIBUTION" =>
        /\ analyzeMMXMPhases(candles).manipulation.detected
        /\ HasUnfilledGap(candles, analyzeMMXMPhases(candles).distribution)
        /\ analyzeMMXMPhases(candles).distribution.displacementCandles > 0
        /\ analyzeMMXMPhases(candles).distribution.bosSignals # <<>>

\* what the classifier does ensure: a detected manipulation, and in its
\* direction a gap and a displacement candle among the last 15 candles
DistributionNeedsGapAndDisplacement ==
    analyzeMMXMPhases(candles).currentPhase = "DISTRIBUTION" =>
        /\ analyzeMMXMPhases(candles).manipulation.detected
        /\ analyzeMMXMPhases(candles).distribution.direction
              = analyzeMMXMPhases(candles).manipulation.expectedDistributionDirection
        /\ analyzeMMXMPhases(candles).distribution.fvgs # <<>>
        /\ analyzeMMXMPhases(candles).distribution.displacementCandles > 0

\* the classifier reports DISTRIBUTION
DistributionReported == analyzeMMXMPhases(candles).currentPhase = "DISTRIBUTION"

\* DISTRIBUTION is reported with an unfilled gap and a displacement candle
\* but without a break of structure
DistributionWithoutBOS ==
    /\ analyzeMMXMPhases(candles).currentPhase = "DISTRIBUTION"
    /\ HasUnfilledGap(candles, analyzeMMXMPhases(candles).distribution)
    /\ analyzeMMXMPhases(candles).distribution.bosSignals = <<>>

-----------------------------------------------------------------------------
(* Bias margin and break of structure (src/unnamed/part_009)                *)

MaxStructureLen == 22

\* a quiet candle, a candle with a wick to a level, a candle with a dip to
\* a level, a rally candle closing above every wick and a slump candle
\* closing below every dip
StructurePlain == [open |-> 995, high |-> 1010, low |-> 987, close |-> 996]

StructurePeak(level) == [open |-> 995, high |-> 1000 + level, low |-> 987, close |-> 996]

StructureDip(level) == [open |-> 995, high |-> 1010, low |-> 980 + level, close |-> 996]

StructureRally == [open |-> 1000, high |-> 1040, low |-> 987, close |-> 1035]

StructureSlump == [open |-> 990, high |-> 1010, low |-> 975, close |-> 980]

\* the candles the structure analysis is exercised with: wicks at the 6th,
\* 12th and 16th candle, dips at the 9th and 15th, and rallies and slumps
\* from the 20th
StructureCandles(position) ==
    CASE position = 6 -> {StructurePeak(20), StructurePlain}
      [] position = 12 -> {StructurePeak(30)}
      [] position = 16 -> {StructurePeak(25), StructurePlain}
      [] position = 9 -> {StructureDip(3)}
      [] position = 15 -> {StructureDip(5), StructurePlain}
      [] position >= 20 -> {StructureRally, StructureSlump, StructurePlain}
      [] OTHER -> {StructurePlain}

InitStructure ==
    /\ EngineIdle
    /\ ReplayIdle
    /\ ComponentsIdle
    /\ candles = <<>>
    /\ lookback \in {SWING_LOOKBACK_HTF, SWING_LOOKBACK}

\* the series grows by one candle: the cursor moves on
AppendStructureCandle ==
    /\ Len(candles) < MaxStructureLen
    /\ \E c \in StructureCandles(Len(candles) + 1) : candles' = Append(candles, c)
    /\ UNCHANGED lookback
    /\ UNCHANGED engineVars
    /\ UNCHANGED replayVars
    /\ UNCHANGED componentVars

NextStructure == AppendStructureCandle

SpecStructure == InitStructure /\ [][NextStructure]_vars

\* C21: every bias computation, the per-timeframe bias of the multi-timeframe
\* alignment included, answers BULLISH only if the bullish transitions
\* exceed the bearish transitions by more than 1, and BEARISH only in the
\* symmetric case.
C21_BiasNeedsMargin ==
    LET s == biasScores(identifySwings(candles, lookback, TRUE))
        b == determineBiasWithLookback(candles, lookback).bias
        d == biasScores(identifySwings(candles, SWING_LOOKBACK, TRUE))
        bd == determineBias(candles).bias
    IN  /\ b = "BULLISH" => s.bullishScore > s.bearishScore + 1
        /\ b = "BEARISH" => s.bearishScore > s.bullishScore + 1
        /\ bd = "BULLISH" => d.bullishScore > d.bearishScore + 1
        /\ bd = "BEARISH" => d.bearishScore > d.bullishScore + 1

\* the default bias computation answers BULLISH with a margin of two
BiasWithMargin ==
    /\ determineBias(candles).bias = "BULLISH"
    /\ biasScores(identifySwings(candles, SWING_LOOKBACK, TRUE)).bullishScore = 2

\* the completed candles of the recent window that close beyond the latest
\* confirmed swing: above the swing high (up) or below the swing low
breaksOfLatestSwing(a, up) ==
    LET swings == identifySwings(a, SWING_LOOKBACK, TRUE)
        q == IF up THEN swings.swingHighs ELSE swings.swingLows
    IN  IF q = <<>> THEN {}
        ELSE {i \in Max(0, Len(a) - 11)..(Len(a) - 2) :
                 IF up THEN At(a, i).close > q[Len(q)].price
                 ELSE At(a, i).close < q[Len(q)].price}

signalsOfType(bos, type) == {k \in 1..Len(bos) : bos[k].type = type}

\* C22: a reported bullish break of structure names the most recent
\* completed candle of the recent window that closes above the latest
\* confirmed swing high (bearish: below the latest confirmed swing low), the
\* candle at the cursor is never the break candle, and a break is reported
\* whenever such a candle exists.
C22_BreakIsMostRecent ==
    LET bos == detectBOS(candles)
        above == breaksOfLatestSwing(candles, TRUE)
        below == breaksOfLatestSwing(candles, FALSE)
    IN  /\ \A k \in signalsOfType(bos, "BULLISH_BOS") :
              /\ bos[k].breakCandle \in above
              /\ \A i \in above : i <= bos[k].breakCandle
        /\ \A k \in signalsOfType(bos, "BEARISH_BOS") :
              /\ bos[k].breakCandle \in below
              /\ \A i \in below : i <= bos[k].breakCandle
        /\ \A k \in 1..Len(bos) : bos[k].breakCandle # Len(candles) - 1
        /\ above # {} => signalsOfType(bos, "BULLISH_BOS") # {}
        /\ below # {} => signalsOfType(bos, "BEARISH_BOS") # {}

\* what holds of every reported break: its candle is a completed candle of
\* the recent window that closes beyond the latest confirmed swing
BreakIsCompletedCandle ==
    LET bos == detectBOS(candles)
    IN  /\ \A k \in signalsOfType(bos, "BULLISH_BOS") :
              bos[k].breakCandle \in breaksOfLatestSwing(candles, TRUE)
        /\ \A k \in signalsOfType(bos, "BEARISH_BOS") :
              bos[k].breakCandle \in breaksOfLatestSwing(candles, FALSE)
        /\ \A k \in 1..Len(bos) : bos[k].breakCandle < Len(candles) - 1

\* a break is reported although two candles closed beyond the swing
BreakReportedOfTwo ==
    /\ detectBOS(candles) # <<>>
    /\ \/ Cardinality(breaksOfLatestSwing(candles, TRUE)) >= 2
       \/ Cardinality(breaksOfLatestSwing(candles, FALSE)) >= 2

\* the break named is the first of the candles that closed beyond the swing
BreakIsFirst ==
    LET bos == detectBOS(candles)
    IN  \A k \in signalsOfType(bos, "BULLISH_BOS") :
           \A i \in breaksOfLatestSwing(candles, TRUE) : i >= bos[k].breakCandle

\* a candle closed above the only confirmed swing high and none is reported
BreakOfOnlySwing ==
    /\ Len(identifySwings(candles, SWING_LOOKBACK, TRUE).swingHighs) = 1
    /\ breaksOfLatestSwing(candles, TRUE) # {}
    /\ detectBOS(candles) = <<>>

-----------------------------------------------------------------------------
(* Gaps available to the gap entry (src/src/ict/fairValueGap.js)            *)

\* the gaps findUnfilledFVGs detects at the cursor of series a, before the
\* fill scan
AvailableGaps(a) ==
    IF Len(a) = 0 THEN {}
    ELSE GapIds(allFvgs(a).bullish) \cup GapIds(allFvgs(a).bearish)

\* C23: for every window of three consecutive completed candles before the
\* cursor, a bullish gap is available to the gap entry iff c3.low > c1.high
\* with a gap size within the configured percentages of c2.close and a
\* displacement of c2 (bearish: c1.low > c3.high): no qualifying window of
\* completed candles is left out.
C23_EveryCompletedWindowScanned ==
    \A i \in 2..(Len(candles) - 2) :
        /\ isBullishFVG(candles, i) <=> <<"BULLISH_FVG", i - 1>> \in AvailableGaps(candles)
        /\ isBearishFVG(candles, i) <=> <<"BEARISH_FVG", i - 1>> \in AvailableGaps(candles)

\* what holds: every gap available is a qualifying window of completed
\* candles, and a qualifying window is available iff it ends at least eleven
\* candles before the cursor
AvailableGapsAreOlderWindows ==
    \A i \in 2..(Len(candles) - 2) :
        /\ <<"BULLISH_FVG", i - 1>> \in AvailableGaps(candles)
              <=> isBullishFVG(candles, i) /\ i <= Len(candles) - 12
        /\ <<"BEARISH_FVG", i - 1>> \in AvailableGaps(candles)
              <=> isBearishFVG(candles, i) /\ i <= Len(candles) - 12

\* a gap completed ten candles before the cursor is not available
GapLeftOut ==
    /\ Len(candles) = 13
    /\ isBullishFVG(candles, 2)
    /\ AvailableGaps(candles) = {}

-----------------------------------------------------------------------------
(* Fill status of a gap (src/src/ict/fairValueGap.js)                       *)

\* candle i reached the far side of the gap: the bottom of a bullish gap,
\* the top of a bearish one
reachedFarSide(a, g, i) ==
    IF g.type = "BULLISH_FVG" THEN At(a, i).low <= g.low ELSE At(a, i).high >= g.high

\* candle i reached the midpoint of the gap
reachedMidpoint(a, g, i) ==
    IF g.type = "BULLISH_FVG" THEN 2 * At(a, i).low <= g.mid2 ELSE 2 * At(a, i).high >= g.mid2

\* the entries of findUnfilledFVGs for gap g
unfilledEntries(a, g) ==
    LET unfilled == findUnfilledFVGs(a).bullish \o findUnfilledFVGs(a).bearish
    IN  {unfilled[k] : k \in {u \in 1..Len(unfilled) :
                                 unfilled[u].type = g.type /\ unfilled[u].index = g.index}}

\* the fill status at the cursor of series a follows the completed candles
\* after the gap
fillStatusFollowsScan(a) ==
    LET all == allFvgs(a).bullish \o allFvgs(a).bearish
    IN  \A k \in 1..Len(all) :
           /\ unfilledEntries(a, all[k]) = {}
                 <=> \E i \in (all[k].index + 1)..(Len(a) - 2) : reachedFarSide(a, all[k], i)
           /\ \A e \in unfilledEntries(a, all[k]) :
                 e.partiallyFilled
                    <=> \E i \in (all[k].index + 1)..(Len(a) - 2) : reachedMidpoint(a, all[k], i)

\* C24: scanning the completed candles after a gap in order, the gap is
\* filled from the first candle that reaches its far side (a low at or below
\* the bottom of a bullish gap, a high at or above the top of a bearish one)
\* and unfilled before it, and it is marked partially filled iff a candle
\* reached the midpoint and none reached the far side.
C24_FilledFromFirstReach ==
    Len(candles) > 0 => fillStatusFollowsScan(candles)

\* a bullish gap was unfilled and partially filled at the previous cursor
\* and is filled now: the candle just completed is the first to reach its
\* bottom
C24_Witness ==
    /\ Len(candles) > 1
    /\ \E k \in 1..Len(allFvgs(candles).bullish) :
          LET g == allFvgs(candles).bullish[k]
              before == SubSeq(candles, 1, Len(candles) - 1)
          IN  /\ unfilledEntries(candles, g) = {}
              /\ \E e \in unfilledEntries(before, g) : e.partiallyFilled
              /\ reachedFarSide(candles, g, Len(candles) - 2)

-----------------------------------------------------------------------------
(* Best gap (src/src/ict/fairValueGap.js)                                   *)

MaxBestGapLen == 17

\* a second rally candle, the candle after it, and a candle far above
GapRally == [open |-> 1012, high |-> 1026, low |-> 1011, close |-> 1024]

GapTop == [open |-> 1024, high |-> 1028, low |-> 1022, close |-> 1025]

GapFar == [open |-> 1040, high |-> 1045, low |-> 1035, close |-> 1042]

\* the candles the gap selection is exercised with: a rally in two legs,
\* each leaving a bullish gap, then candles above both gaps
BestGapCandles(position) ==
    CASE position = 1 -> {FVGBase}
      [] position = 2 -> {FVGUp}
      [] position = 3 -> {FVGHigh}
      [] position = 4 -> {GapRally, FVGHigh}
      [] position \in 5..11 -> {GapTop}
      [] OTHER -> {GapTop, GapFar}

InitBestGap ==
    /\ EngineIdle
    /\ ReplayIdle
    /\ ComponentsIdle
    /\ candles = <<>>
    /\ lookback = 0

\* the series grows by one candle: the cursor moves on
AppendBestGapCandle ==
    /\ Len(candles) < MaxBestGapLen
    /\ \E c \in BestGapCandles(Len(candles) + 1) : candles' = Append(candles, c)
    /\ UNCHANGED lookback
    /\ UNCHANGED engineVars
    /\ UNCHANGED replayVars
    /\ UNCHANGED componentVars

NextBestGap == AppendBestGapCandle

SpecBestGap == InitBestGap /\ [][NextBestGap]_vars

\* two gaps equal in proximity to the current price, displacement and
\* partial fill
equalButRecency(g, h) ==
    /\ g.isApproaching = h.isApproaching
    /\ g.isInside = h.isInside
    /\ g.hasDisplacement = h.hasDisplacement
    /\ g.partiallyFilled = h.partiallyFilled

\* the more recent of two such gaps scores higher and the older one is not
\* the gap returned
recentGapWins(a, bias) ==
    LET targetFvgs == IF bias = "BULLISH" THEN findUnfilledFVGs(a).bullish
                      ELSE findUnfilledFVGs(a).bearish
    IN  \A k, n \in 1..Len(targetFvgs) :
           equalButRecency(targetFvgs[k], targetFvgs[n]) /\ targetFvgs[k].index < targetFvgs[n].index
              => /\ fvgScore(a, targetFvgs[n]) > fvgScore(a, targetFvgs[k])
                 /\ findBestFVG(a, bias).fvg # targetFvgs[k]

\* C25: in the selection of the best gap, of two unfilled gaps for the
\* requested bias that are equal in proximity to the current price,
\* displacement and partial fill, the more recent gap has the higher score
\* and is the one returned.
C25_RecentGapWins ==
    Len(candles) > 0 => recentGapWins(candles, "BULLISH") /\ recentGapWins(candles, "BEARISH")

\* what the selection does: of two such gaps the older one scores higher
olderGapWins(a, bias) ==
    LET targetFvgs == IF bias = "BULLISH" THEN findUnfilledFVGs(a).bullish
                      ELSE findUnfilledFVGs(a).bearish
    IN  \A k, n \in 1..Len(targetFvgs) :
           equalButRecency(targetFvgs[k], targetFvgs[n]) /\ targetFvgs[k].index < targetFvgs[n].index
              => /\ fvgScore(a, targetFvgs[k]) > fvgScore(a, targetFvgs[n])
                 /\ findBestFVG(a, bias).fvg # targetFvgs[n]

OlderGapWins ==
    Len(candles) > 0 => olderGapWins(candles, "BULLISH") /\ olderGapWins(candles, "BEARISH")

\* two unfilled bullish gaps that differ in recency only
TwoEqualGaps ==
    /\ Len(candles) > 0
    /\ \E k, n \in 1..Len(findUnfilledFVGs(candles).bullish) :
          /\ k # n
          /\ equalButRecency(findUnfilledFVGs(candles).bullish[k],
                             findUnfilledFVGs(candles).bullish[n])

-----------------------------------------------------------------------------
(* Recent sweep (src/unnamed/part_009)                                      *)

\* the confirmed sweeps of direction d whose sweep candle lies within the
\* last ten candles before the cursor
recentMatchingSweeps(a, d) ==
    LET sweeps == detectLiquiditySweep(a, TRUE)
    IN  {k \in 1..Len(sweeps) : sweeps[k].direction = d /\ Len(a) - 1 - sweeps[k].index <= 10}

\* C26: if a confirmed sweep of direction D has its sweep candle within the
\* last ten candles before the cursor, hasRecentLiquiditySweep reports
\* swept = true for D, even when an older matching sweep outside the window
\* is stronger.
C26_RecentSweepReported ==
    \A d \in {"BULLISH", "BEARISH"} :
        Len(candles) > 0 /\ recentMatchingSweeps(candles, d) # {}
            => hasRecentLiquiditySweep(candles, d).swept

\* what holds: swept is reported iff the strongest matching sweep is recent
StrongestSweepDecides ==
    \A d \in {"BULLISH", "BEARISH"} :
        Len(candles) > 0 /\ hasRecentLiquiditySweep(candles, d).swept
            => \E k \in recentMatchingSweeps(candles, d) :
                  detectLiquiditySweep(candles, TRUE)[k].index
                      = hasRecentLiquiditySweep(candles, d).index

\* a recent matching sweep and a strictly stronger one outside the window
RecentSweepAndOlderStronger ==
    /\ Len(candles) > 0
    /\ \E k \in recentMatchingSweeps(candles, "BEARISH") :
          \E n \in 1..Len(detectLiquiditySweep(candles, TRUE)) :
             /\ detectLiquiditySweep(candles, TRUE)[n].direction = "BEARISH"
             /\ Len(candles) - 1 - detectLiquiditySweep(candles, TRUE)[n].index > 10
             /\ strongerSweep(detectLiquiditySweep(candles, TRUE)[n],
                              detectLiquiditySweep(candles, TRUE)[k])
    /\ ~hasRecentLiquiditySweep(candles, "BEARISH").swept

-----------------------------------------------------------------------------
(* Trades per day (src/src/tradeDecision.js)                                *)

\* C27: over any sequence of makeDecision calls on one engine, the LONG or
\* SHORT decisions issued on one UTC date never number more than
\* MAX_TRADES_PER_DAY + 1: the exception for an A+ setup admits one second
\* trade.
C27_AtMostOneExtraTrade ==
    tradesToday <= MAX_TRADES_PER_DAY + 1

\* what holds: every trade beyond MAX_TRADES_PER_DAY on a date is an A+ setup
ExtraTradesAreAPlus ==
    [][ ( /\ tradesToday' = tradesToday + 1
          /\ tradesToday >= MAX_TRADES_PER_DAY )
        => /\ Traded(call')
           /\ call'.confluenceScore >= A_PLUS_SCORE ]_vars

-----------------------------------------------------------------------------
(* Overlapping makeDecision calls (src/src/tradeDecision.js,                *)
(* src/unnamed/part_002).  run() calls checkAndTrade at once and then every *)
(* five minutes without waiting for the call before; a call runs up to its  *)
(* next await before another callback runs.                                 *)

\* variant: the limit test uses the count the call found when it started
countAtLimitTest_atStart(current, atStart) == atStart

\* this.tradesToday as STEP 10 reads it, after the last await
countAtLimitTest(current, atStart) == current

\* the setups the overlapping calls find: a swept pool and a valid gap, in
\* the right or the wrong zone, with or without SMT divergence
OverlapSetups ==
    {r \in CandleResults : /\ r.swept /\ r.fvgValid
                           /\ ~r.mmxm.tradeable /\ ~r.judas.tradeable}

OverlapData ==
    {d \in MarketDataSet : ~d.failed /\ d.volatility = "ok" /\ d.bullish + d.bearish > 0}

InitOverlap ==
    /\ EngineIdle
    /\ ReplayIdle
    /\ ComponentsIdle
    /\ candles = <<>>
    /\ lookback = 0

\* checkAndTrade -> analyze -> makeDecision: the first check, or a scheduled
\* check that starts while the check before is still awaiting data
StartCall(i) ==
    /\ calls[i].call.pc = "idle"
    /\ \/ i = 1
       \/ calls[1].call.pc \in {"awaitNews", "awaitData", "awaitExternal"}
    /\ calls' = [calls EXCEPT ![i].call = stepsBeforeNews(NewCall(FALSE), clock),
                              ![i].tradesAtStart = tradesToday]
    /\ UNCHANGED <<clock, tradesToday, lastTradeDate, call, world, prev>>
    /\ UNCHANGED detectorVars
    /\ UNCHANGED replayVars
    /\ UNCHANGED componentVars

NewsReturns(i) ==
    /\ calls[i].call.pc = "awaitNews"
    /\ \E newsCheck \in NewsResults :
          calls' = [calls EXCEPT ![i].call = stepsAfterNews(@, newsCheck, clock),
                                 ![i].news = newsCheck]
    /\ UNCHANGED <<clock, tradesToday, lastTradeDate, call, world, prev>>
    /\ UNCHANGED detectorVars
    /\ UNCHANGED replayVars
    /\ UNCHANGED componentVars

DataReturns(i) ==
    /\ calls[i].call.pc = "awaitData"
    /\ \E marketData \in OverlapData :
          calls' = [calls EXCEPT ![i].call = stepsAfterData(@, marketData),
                                 ![i].data = marketData]
    /\ UNCHANGED <<clock, tradesToday, lastTradeDate, call, world, prev>>
    /\ UNCHANGED detectorVars
    /\ UNCHANGED replayVars
    /\ UNCHANGED componentVars

\* the rest of makeDecision runs without an await: STEPS 6.5 to 10, the
\* limit test and tradesToday++ included
ExternalReturns(i) ==
    /\ calls[i].call.pc = "awaitExternal"
    /\ \E externalData \in analyzeExternalData : \E r \in OverlapSetups :
          LET out == stepsAfterExternal(calls[i].call, externalData, r, calls[i].news,
                         getHTFBiasAlignment(calls[i].data.bullish, calls[i].data.bearish),
                         clock, countAtLimitTest(tradesToday, calls[i].tradesAtStart),
                         lastTradeDate)
          IN  /\ calls' = [calls EXCEPT ![i].call = out.call]
              /\ tradesToday' = out.tradesToday
              /\ lastTradeDate' = out.lastTradeDate
    /\ UNCHANGED <<clock, call, world, prev>>
    /\ UNCHANGED detectorVars
    /\ UNCHANGED replayVars
    /\ UNCHANGED componentVars

\* time passes on the same date while calls wait for their collaborators
OverlapTick ==
    /\ \E i \in CallIds : calls[i].call.pc \in {"awaitNews", "awaitData", "awaitExternal"}
    /\ \E t \in Clocks : t.day = clock.day /\ Later(clock, t) /\ clock' = t
    /\ UNCHANGED <<tradesToday, lastTradeDate, call, world, prev, calls>>
    /\ UNCHANGED detectorVars
    /\ UNCHANGED replayVars
    /\ UNCHANGED componentVars

NextOverlap ==
    \/ \E i \in CallIds : StartCall(i)
    \/ \E i \in CallIds : NewsReturns(i)
    \/ \E i \in CallIds : DataReturns(i)
    \/ \E i \in CallIds : ExternalReturns(i)
    \/ OverlapTick

SpecOverlap == InitOverlap /\ [][NextOverlap]_vars

\* C28: when makeDecision calls on one engine overlap in time, the limit
\* test and the tradesToday increment of one call are never interleaved
\* with those of another: no trade is lost from tradesToday, and with
\* MAX_TRADES_PER_DAY = 1 two overlapping calls on the same date whose
\* scores are below A_PLUS_SCORE do not both return LONG or SHORT.
C28_OverlappingCallsShareLimit ==
    /\ tradesToday = Cardinality({i \in CallIds : Traded(calls[i].call)})
    /\ \A i, j \in CallIds :
          ( /\ i # j
            /\ Traded(calls[i].call)
            /\ Traded(calls[j].call) )
          => \/ calls[i].call.confluenceScore >= A_PLUS_SCORE
             \/ calls[j].call.confluenceScore >= A_PLUS_SCORE

\* the scheduled check traded first while the first check was waiting; the
\* first check passed every gate with a score below A+ and met the limit
C28_Witness ==
    /\ Traded(calls[2].call)
    /\ calls[2].call.confluenceScore < A_PLUS_SCORE
    /\ calls[1].call.pc = "done"
    /\ calls[1].call.confluenceScore >= MIN_SCORE_TO_TRADE
    /\ calls[1].call.confluenceScore < A_PLUS_SCORE
    /\ calls[1].tradesAtStart = 0
    /\ Last(calls[1].call.reasons) = "DAILY_LIMIT"

-----------------------------------------------------------------------------
(* The end of the challenge (src/unnamed/part_002)                          *)

\* variant: the check runs whether the challenge is active or not
checkAndTrade_unguarded(st, canTrade, action, executed) ==
    IF ~canTrade THEN "outsideKillzone"
    ELSE IF action = "NO_TRADE" THEN "analysed"
    ELSE IF executed THEN "traded" ELSE "notExecuted"

\* BotCasino13.checkAndTrade: what the check does for the window status, the
\* action of the analysis (NO_TRADE also for an analysis that failed) and
\* the result of executeTrade
checkAndTrade(st, canTrade, action, executed) ==
    IF ~st.challengeActive THEN "complete"
    ELSE IF ~canTrade THEN "outsideKillzone"
    ELSE IF action = "NO_TRADE" THEN "analysed"
    ELSE IF executed THEN "traded" ELSE "notExecuted"

InitChallenge ==
    /\ EngineIdle
    /\ candles = <<>>
    /\ lookback = 0
    /\ ReplayIdle
    /\ ComponentsIdle

\* the scheduled check
CheckAndTrade ==
    /\ \E t \in Clocks, action \in {"NO_TRADE", "LONG", "SHORT"}, executed \in BOOLEAN :
          lastCheck' = checkAndTrade(state, getTradingWindowStatus(t).canTrade, action, executed)
    /\ UNCHANGED <<results, state, source>>
    /\ UNCHANGED engineVars
    /\ UNCHANGED detectorVars
    /\ UNCHANGED replayVars

\* the losses recorded
lossesIn(h) == Cardinality({k \in 1..Len(h) : ~h[k].isWin})

\* a trade result is recorded: up to MaxLosses losses before the challenge
\* is complete, any result after it
RecordChallengeResult ==
    /\ state.totalTrades < MaxRecords
    /\ \E isWin \in BOOLEAN :
          /\ isWin \/ ~state.challengeActive \/ lossesIn(state.tradeHistory) < MaxLosses
          /\ state' = recordResult(state, isWin)
    /\ UNCHANGED <<results, source, lastCheck>>
    /\ UNCHANGED engineVars
    /\ UNCHANGED detectorVars
    /\ UNCHANGED replayVars

NextChallenge == CheckAndTrade \/ RecordChallengeResult

SpecChallenge == InitChallenge /\ [][NextChallenge]_vars

\* C30: once challengeActive is false it never becomes true again, and every
\* later checkAndTrade returns without an analysis and without a trade,
\* whatever results are recorded afterwards.
C30_CompleteStaysComplete ==
    [][ ~state.challengeActive
           => /\ ~state'.challengeActive
              /\ lastCheck' \in {lastCheck, "complete"} ]_vars

\* after thirteen wins a loss was recorded and a check returned at once
C30_Witness ==
    /\ ~state.challengeActive
    /\ state.consecutiveWins = 0
    /\ state.totalTrades > REQUIRED_WINS
    /\ lastCheck = "complete"

-----------------------------------------------------------------------------
(* Accounting of the replayed days (src/src/backtest/runner.js)             *)

\* the sum of the counts of the skip reasons
RECURSIVE skippedDays(_)
skippedDays(skippedReasons) ==
    IF DOMAIN skippedReasons = {} THEN 0
    ELSE LET reason == CHOOSE x \in DOMAIN skippedReasons : TRUE
         IN  skippedReasons[reason]
                + skippedDays([x \in DOMAIN skippedReasons \ {reason} |-> skippedReasons[x]])

\* the counters a day is accounted in
dayCounters(r) == <<r.totalDays, r.wins, r.losses, r.skippedReasons>>

\* C29: in every replay each non-weekend day counted in totalDays is
\* accounted for exactly once, as a win, as a loss or under one skip reason:
\* totalDays = wins + losses + the sum of the skip-reason counts after every
\* day, and a weekend day changes none of them.
C29_EveryDayAccountedOnce ==
    [][ /\ results'.totalDays
              = results'.wins + results'.losses + skippedDays(results'.skippedReasons)
        /\ results'.totalDays = results.totalDays + 1
              => \/ /\ results'.wins + results'.losses = results.wins + results.losses + 1
                    /\ results'.skippedReasons = results.skippedReasons
                 \/ /\ results'.wins = results.wins /\ results'.losses = results.losses
                    /\ skippedDays(results'.skippedReasons)
                          = skippedDays(results.skippedReasons) + 1
        /\ results'.totalDays = results.totalDays
              => dayCounters(results') = dayCounters(results) ]_vars

\* the end of a replay with a weekend, a win, a loss and days skipped for
\* two reasons, one of them twice
C29_Witness ==
    /\ results.days = MaxReplayDays
    /\ results.totalDays < results.days
    /\ results.wins > 0
    /\ results.losses > 0
    /\ DOMAIN results.skippedReasons = {"No HTF alignment", "No liquidity sweep"}
    /\ results.skippedReasons["No liquidity sweep"] = 2

====
